---- MODULE Spec2Model ----
(***************************************************************************)
(* The Pilot command layer of openscope (aircraft/Pilot/Pilot.js): every   *)
(* ATC instruction is one atomic step that reads the aircraft, mutates the *)
(* mode control panel (MCP) and the flight management system (FMS) and     *)
(* returns [success, readback].                                            *)
(*                                                                         *)
(* Altitudes are feet and speeds are knots.  Headings, courses and runway  *)
(* angles are radians, counted in half degrees (pi/360 rad); an instructed *)
(* heading is given in degrees.  The aircraft (altitude, heading, speed, on ground or airborne)  *)
(* is moved by the physics loop between instructions, so each instruction  *)
(* receives it as an input.                                                *)
(***************************************************************************)
EXTENDS Integers, Sequences, FiniteSets, TLC

VARIABLES
    mcp,                    \* Pilot._mcp: the ModeController
    fms,                    \* Pilot._fms: the Fms (route cursor, holds, runway)
    hasApproachClearance,   \* Pilot.hasApproachClearance
    hasDepartureClearance,  \* Pilot.hasDepartureClearance
    armed,                  \* lateral reference the glidepath was armed against
    aircraftType,           \* aircraftModel.model: AircraftTypeDefinitionModel
    airport,                \* AirportController.airport_get()
    runwayUse,              \* the type that used the runway before, and the
                            \* separation the present type owes to it
    last                    \* the last instruction: its name and its result

vars == <<mcp, fms, hasApproachClearance, hasDepartureClearance, armed,
          aircraftType, airport, runwayUse, last>>

-----------------------------------------------------------------------------
(* Bounds of the model *)

\* requested altitudes are 900, 1000, ... , 900 + 100 * MaxAltitudeIdx feet
MaxAltitudeIdx == 5

\* the route holds the waypoints 1 .. NumWaypoints
NumWaypoints == 2

-----------------------------------------------------------------------------
(* Constants of the program *)

INVALID_NUMBER == -1

AltitudeModes == {"OFF", "HOLD", "VNAV", "APPROACH"}
HeadingModes == {"OFF", "HOLD", "VOR_LOC", "LNAV"}
SpeedModes == {"OFF", "HOLD", "N1", "VNAV"}

-----------------------------------------------------------------------------
(* The environment: airport, aircraft types, runways, aircraft positions *)

Airports == {[minAssignableAltitude |-> 1000, maxAssignableAltitude |-> 1200]}

\* a type that can climb above the airspace ceiling
AircraftTypes == {[ceiling |-> 1300, speed |-> [min |-> 120, max |-> 300]]}

NoRunway ==
    [name |-> "nil", positionModel |-> "none", angle |-> INVALID_NUMBER,
     ils |-> [glideslopeGradient |-> 0], minimumGlideslopeInterceptAltitude |-> 0]

Runways ==
    {[name |-> "27L", positionModel |-> "pos27L", angle |-> 540,
      ils |-> [glideslopeGradient |-> 3],
      minimumGlideslopeInterceptAltitude |-> 1100],
     [name |-> "09R", positionModel |-> "pos09R", angle |-> 180,
      ils |-> [glideslopeGradient |-> 4],
      minimumGlideslopeInterceptAltitude |-> 1200]}

RequestedAltitudes == {900 + 100 * i : i \in 0..MaxAltitudeIdx}

\* where the aircraft is when the instruction arrives; never above its ceiling
AircraftAltitudes == {1050, 1300}
\* heading east, in half degrees
AircraftHeadings == {180}

WaypointNames == 1..NumWaypoints
\* a name that is not on the route
UnknownWaypointName == NumWaypoints + 1

-----------------------------------------------------------------------------
(* Arithmetic helpers *)

\* lodash _floor(x, -2) and _ceil(x, -2): down and up to a multiple of 100
floor100(x) == (x \div 100) * 100
ceil100(x) == ((x + 99) \div 100) * 100

Min(a, b) == IF a < b THEN a ELSE b
Max(a, b) == IF a > b THEN a ELSE b

\* math/core clamp(min, value, max)
clamp(lo, v, hi) == IF v >= hi THEN hi ELSE IF v <= lo THEN lo ELSE v

-----------------------------------------------------------------------------
(* AircraftTypeDefinitionModel *)

isAbleToMaintainAltitude(model, altitude) == altitude <= model.ceiling

isAbleToMaintainSpeed(model, speed) ==
    speed >= model.speed.min /\ speed <= model.speed.max

\* the runway has not been used yet
NoRunwayUse == [previousType |-> "none", separation |-> INVALID_NUMBER]

-----------------------------------------------------------------------------
(* ModeController: every setter writes one field and nothing else *)

McpInit ==
    [altitudeMode |-> "OFF", altitude |-> INVALID_NUMBER,
     headingMode |-> "OFF", heading |-> INVALID_NUMBER,
     speedMode |-> "OFF", speed |-> INVALID_NUMBER,
     course |-> INVALID_NUMBER, nav1Datum |-> "none", descentAngle |-> 0,
     shouldExpediteAltitudeChange |-> FALSE]

setAltitudeFieldValue(m, v) == [m EXCEPT !.altitude = v]
setAltitudeHold(m) == [m EXCEPT !.altitudeMode = "HOLD"]
setAltitudeVnav(m) == [m EXCEPT !.altitudeMode = "VNAV"]
setAltitudeApproach(m) == [m EXCEPT !.altitudeMode = "APPROACH"]
setHeadingFieldValue(m, v) == [m EXCEPT !.heading = v]
setHeadingHold(m) == [m EXCEPT !.headingMode = "HOLD"]
setHeadingLnav(m) == [m EXCEPT !.headingMode = "LNAV"]
setHeadingVorLoc(m) == [m EXCEPT !.headingMode = "VOR_LOC"]
setCourseFieldValue(m, v) == [m EXCEPT !.course = v]
setNav1Datum(m, d) == [m EXCEPT !.nav1Datum = d]
setDescentAngle(m, a) == [m EXCEPT !.descentAngle = a]
setSpeedFieldValue(m, v) == [m EXCEPT !.speed = v]
setSpeedHold(m) == [m EXCEPT !.speedMode = "HOLD"]
setSpeedN1(m) == [m EXCEPT !.speedMode = "N1"]
setSpeedVnav(m) == [m EXCEPT !.speedMode = "VNAV"]

-----------------------------------------------------------------------------
(* Fms: the route is the waypoints 1 .. NumWaypoints in order; the cursor  *)
(* is the current waypoint; holds are the waypoints whose hold is active   *)

\* the route strings the navigation data resolves
KnownRouteStrings == {"KEPEC3"}
RouteStrings == KnownRouteStrings \cup {"UNKNOWN"}

FlightPlanAltitudes == {1200}

FmsInit(fpa) ==
    [currentWaypoint |-> 1, holds |-> {}, skipped |-> {},
     arrivalRunway |-> "nil", route |-> "filed", flightPlanAltitude |-> fpa]

\* waypoint 1 carries an AT 1100 restriction, the later ones carry none
WaypointAltitudeRestriction(w) == IF w = 1 THEN 1100 ELSE INVALID_NUMBER

hasWaypointName(f, name) == name \in WaypointNames /\ name >= f.currentWaypoint

\* the binding altitude of the restrictions still ahead, INVALID_NUMBER if none
getBottomAltitude(f) ==
    LET ahead == {WaypointAltitudeRestriction(w) : w \in f.currentWaypoint..NumWaypoints}
                    \ {INVALID_NUMBER}
    IN IF ahead = {} THEN INVALID_NUMBER
       ELSE CHOOSE a \in ahead : \A b \in ahead : a <= b

skipToWaypointName(f, name) ==
    [f EXCEPT !.currentWaypoint = name,
              !.skipped = f.skipped \cup {w \in WaypointNames : f.currentWaypoint <= w /\ w < name}]

isHoldWaypoint(f, w) == w \in f.holds

deactivateHold(f, w) == [f EXCEPT !.holds = f.holds \ {w}]

\* "none" is the absence of a response, which denotes success
activateHoldForWaypointName(f, name) ==
    IF hasWaypointName(f, name)
    THEN [fms |-> [f EXCEPT !.holds = f.holds \cup {name}], response |-> "none"]
    ELSE [fms |-> f, response |-> "false"]

setArrivalRunway(f, runwayModel) == [f EXCEPT !.arrivalRunway = runwayModel.name]

\* replaceArrivalProcedure, replaceDepartureProcedure, applyPartialRouteAmendment:
\* a lookup miss fails and leaves the route as it was
replaceProcedure(f, kind, routeString) ==
    IF routeString \in KnownRouteStrings
    THEN [fms |-> [f EXCEPT !.route = kind], success |-> TRUE]
    ELSE [fms |-> f, success |-> FALSE]

\* a new flight plan starts at its first waypoint with no hold
replaceFlightPlanWithNewRoute(f, routeString) ==
    IF routeString \in KnownRouteStrings
    THEN [fms |-> [f EXCEPT !.route = "new", !.currentWaypoint = 1,
                            !.holds = {}, !.skipped = {}],
          success |-> TRUE]
    ELSE [fms |-> f, success |-> FALSE]

-----------------------------------------------------------------------------
(* Pilot.  An operation takes the pilot p (its MCP, its FMS, its flags) and *)
(* the call's arguments and gives the pilot after the call and the result:  *)
(* returned is FALSE when the method returns nothing, readback is the shape *)
(* of the second element ("logsay", "string", "number" or "none"), log is   *)
(* the log text with its number.                                            *)

Ret(p, success, readback, text, n) ==
    [p |-> p, returned |-> TRUE, success |-> success, readback |-> readback,
     log |-> [text |-> text, n |-> n],
     lateralGuidance |-> "none", verticalGuidance |-> "none"]

NoResult(p) ==
    [p |-> p, returned |-> FALSE, success |-> FALSE, readback |-> "none",
     log |-> [text |-> "", n |-> 0],
     lateralGuidance |-> "none", verticalGuidance |-> "none"]

\* radians are counted in half degrees: a degree is two of them and a full
\* circle is 720
degreesToRadians(d) == 2 * d
radiansToDegrees(r) == r \div 2
heading_to_string(r) == radiansToDegrees(r)
radians_normalize(r) == r % 720

\* ModeController.headingInDegrees: the heading target in degrees
mcpHeadingInDegrees(m) == radiansToDegrees(m.heading)

\* a cancellation that levels the aircraft off but keeps the clearance flag
cancelApproachClearanceKeepingFlag(p, aircraftModel) ==
    IF ~p.hasApproachClearance
    THEN Ret(p, FALSE, "string", "we have no approach clearance to cancel!", 0)
    ELSE Ret([p EXCEPT !.mcp = setSpeedHold(setHeadingHold(setAltitudeHold(p.mcp)))],
             TRUE, "string", "cancel approach clearance", 0)

\* a cancellation that levels off at the current altitude whatever was assigned
cancelApproachClearanceAtCurrentAltitude(p, aircraftModel) ==
    IF ~p.hasApproachClearance
    THEN Ret(p, FALSE, "string", "we have no approach clearance to cancel!", 0)
    ELSE LET altitudeToMaintain == Max(floor100(aircraftModel.altitude),
                                       airport.minAssignableAltitude)
             m == setSpeedHold(setHeadingHold(setHeadingFieldValue(
                      setAltitudeHold(setAltitudeFieldValue(p.mcp, altitudeToMaintain)),
                      aircraftModel.heading)))
         IN Ret([p EXCEPT !.mcp = m, !.hasApproachClearance = FALSE],
                TRUE, "string", "cancel approach clearance", 0)

\* a cancellation that leaves the speed mode as it was
cancelApproachClearanceLeavingSpeedMode(p, aircraftModel) ==
    IF ~p.hasApproachClearance
    THEN Ret(p, FALSE, "string", "we have no approach clearance to cancel!", 0)
    ELSE LET altitudeToMaintain == Max(Min(floor100(aircraftModel.altitude), p.mcp.altitude),
                                       airport.minAssignableAltitude)
             m == setHeadingHold(setHeadingFieldValue(
                      setAltitudeHold(setAltitudeFieldValue(p.mcp, altitudeToMaintain)),
                      aircraftModel.heading))
         IN Ret([p EXCEPT !.mcp = m, !.hasApproachClearance = FALSE],
                TRUE, "string", "cancel approach clearance", 0)

cancelApproachClearance(p, aircraftModel) ==
    IF ~p.hasApproachClearance
    THEN Ret(p, FALSE, "string", "we have no approach clearance to cancel!", 0)
    ELSE LET currentAltitude == floor100(aircraftModel.altitude)
             descentAltitude == Min(currentAltitude, p.mcp.altitude)
             altitudeToMaintain == Max(descentAltitude, airport.minAssignableAltitude)
             m == setSpeedHold(setHeadingHold(setHeadingFieldValue(
                      setAltitudeHold(setAltitudeFieldValue(p.mcp, altitudeToMaintain)),
                      aircraftModel.heading)))
         IN Ret([p EXCEPT !.mcp = m, !.hasApproachClearance = FALSE],
                TRUE, "string", "cancel approach clearance", 0)

shouldExpediteAltitudeChange(p) ==
    Ret([p EXCEPT !.mcp.shouldExpediteAltitudeChange = TRUE],
        TRUE, "string", "expediting to assigned altitude", 0)

\* an altitude assignment whose ceiling is never soft
maintainAltitudeHardCeiling(p, altitude, expedite, shouldUseSoftCeiling, airportModel, aircraftModel) ==
    IF ~isAbleToMaintainAltitude(aircraftModel.model, altitude)
    THEN Ret(p, FALSE, "logsay", "unable to maintain due to performance", altitude)
    ELSE LET clampedAltitude == clamp(airportModel.minAssignableAltitude, altitude,
                                      airportModel.maxAssignableAltitude)
             p1 == cancelApproachClearance(p, aircraftModel).p
         IN Ret([p1 EXCEPT !.mcp = setAltitudeHold(
                                       setAltitudeFieldValue(p1.mcp, clampedAltitude))],
                TRUE, "logsay", "maintain", floor100(clampedAltitude))

\* an altitude assignment that does not cancel the approach clearance
maintainAltitudeKeepingApproach(p, altitude, expedite, shouldUseSoftCeiling, airportModel, aircraftModel) ==
    IF ~isAbleToMaintainAltitude(aircraftModel.model, altitude)
    THEN Ret(p, FALSE, "logsay", "unable to maintain due to performance", altitude)
    ELSE LET clampedAltitude == clamp(airportModel.minAssignableAltitude, altitude,
                                      airportModel.maxAssignableAltitude)
         IN Ret([p EXCEPT !.mcp = setAltitudeHold(
                                      setAltitudeFieldValue(p.mcp, clampedAltitude))],
                TRUE, "logsay", "maintain", floor100(clampedAltitude))

\* an altitude assignment read back to the nearest hundred
maintainAltitudeReadBackToNearest(p, altitude, expedite, shouldUseSoftCeiling, airportModel, aircraftModel) ==
    IF ~isAbleToMaintainAltitude(aircraftModel.model, altitude)
    THEN Ret([p EXCEPT !.mcp = setAltitudeFieldValue(p.mcp, aircraftModel.altitude)],
             FALSE, "logsay", "unable to maintain due to performance", altitude)
    ELSE LET clamped == clamp(airportModel.minAssignableAltitude, altitude,
                              airportModel.maxAssignableAltitude)
             clampedAltitude ==
                 IF shouldUseSoftCeiling /\ clamped = airportModel.maxAssignableAltitude
                 THEN clamped + 1 ELSE clamped
             p1 == cancelApproachClearance(p, aircraftModel).p
             p2 == [p1 EXCEPT !.mcp = setAltitudeHold(
                                        setAltitudeFieldValue(p1.mcp, clampedAltitude))]
             p3 == IF expedite THEN shouldExpediteAltitudeChange(p2).p ELSE p2
         IN Ret(p3, TRUE, "logsay",
                IF expedite THEN "maintain and expedite" ELSE "maintain",
                floor100(clampedAltitude + 50))

\* an altitude assignment without expedite that returns to the normal rate
maintainAltitudeAtNormalRate(p, altitude, expedite, shouldUseSoftCeiling, airportModel, aircraftModel) ==
    IF ~isAbleToMaintainAltitude(aircraftModel.model, altitude)
    THEN Ret([p EXCEPT !.mcp = setAltitudeFieldValue(p.mcp, aircraftModel.altitude)],
             FALSE, "logsay", "unable to maintain due to performance", altitude)
    ELSE LET clamped == clamp(airportModel.minAssignableAltitude, altitude,
                              airportModel.maxAssignableAltitude)
             clampedAltitude ==
                 IF shouldUseSoftCeiling /\ clamped = airportModel.maxAssignableAltitude
                 THEN clamped + 1 ELSE clamped
             p1 == cancelApproachClearance(p, aircraftModel).p
             p2 == [p1 EXCEPT !.mcp = setAltitudeHold(
                                        setAltitudeFieldValue(p1.mcp, clampedAltitude))]
         IN Ret([p2 EXCEPT !.mcp.shouldExpediteAltitudeChange = expedite], TRUE, "logsay",
                IF expedite THEN "maintain and expedite" ELSE "maintain",
                floor100(clampedAltitude))

\* an altitude assignment that has the aircraft fly its present heading
maintainAltitudeOnPresentHeading(p, altitude, expedite, shouldUseSoftCeiling, airportModel, aircraftModel) ==
    IF ~isAbleToMaintainAltitude(aircraftModel.model, altitude)
    THEN Ret([p EXCEPT !.mcp = setAltitudeFieldValue(p.mcp, aircraftModel.altitude)],
             FALSE, "logsay", "unable to maintain due to performance", altitude)
    ELSE LET clamped == clamp(airportModel.minAssignableAltitude, altitude,
                              airportModel.maxAssignableAltitude)
             clampedAltitude ==
                 IF shouldUseSoftCeiling /\ clamped = airportModel.maxAssignableAltitude
                 THEN clamped + 1 ELSE clamped
             p1 == cancelApproachClearance([p EXCEPT !.hasApproachClearance = TRUE],
                                           aircraftModel).p
             p2 == [p1 EXCEPT !.mcp = setAltitudeHold(
                                        setAltitudeFieldValue(p1.mcp, clampedAltitude))]
             p3 == IF expedite THEN shouldExpediteAltitudeChange(p2).p ELSE p2
         IN Ret(p3, TRUE, "logsay",
                IF expedite THEN "maintain and expedite" ELSE "maintain",
                floor100(clampedAltitude))

maintainAltitude(p, altitude, expedite, shouldUseSoftCeiling, airportModel, aircraftModel) ==
    IF ~isAbleToMaintainAltitude(aircraftModel.model, altitude)
    THEN Ret([p EXCEPT !.mcp = setAltitudeFieldValue(p.mcp, aircraftModel.altitude)],
             FALSE, "logsay", "unable to maintain due to performance", altitude)
    ELSE LET clamped == clamp(airportModel.minAssignableAltitude, altitude,
                              airportModel.maxAssignableAltitude)
             clampedAltitude ==
                 IF shouldUseSoftCeiling /\ clamped = airportModel.maxAssignableAltitude
                 THEN clamped + 1 ELSE clamped
             p1 == cancelApproachClearance(p, aircraftModel).p
             p2 == [p1 EXCEPT !.mcp = setAltitudeHold(
                                        setAltitudeFieldValue(p1.mcp, clampedAltitude))]
             p3 == IF expedite THEN shouldExpediteAltitudeChange(p2).p ELSE p2
         IN Ret(p3, TRUE, "logsay",
                IF expedite THEN "maintain and expedite" ELSE "maintain",
                floor100(clampedAltitude))

\* an exit from the hold that cancels the holds at all waypoints
exitHoldEverywhere(p) ==
    LET currentWaypoint == p.fms.currentWaypoint
    IN IF ~isHoldWaypoint(p.fms, currentWaypoint)
       THEN Ret(p, FALSE, "string", "not currently holding", 0)
       ELSE Ret([p EXCEPT !.fms.holds = {}],
                TRUE, "string", "roger, cancelling hold over", currentWaypoint)

exitHold(p) ==
    LET currentWaypoint == p.fms.currentWaypoint
    IN IF ~isHoldWaypoint(p.fms, currentWaypoint)
       THEN Ret(p, FALSE, "string", "not currently holding", 0)
       ELSE Ret([p EXCEPT !.fms = deactivateHold(p.fms, currentWaypoint)],
                TRUE, "string", "roger, cancelling hold over", currentWaypoint)

\* a heading assignment whose turns by an amount all go to the right
maintainHeadingTurningRight(p, aircraftModel, headingInDegrees, direction, incremental) ==
    LET correctedHeading ==
            IF incremental
            THEN radians_normalize(aircraftModel.heading + degreesToRadians(headingInDegrees))
            ELSE degreesToRadians(headingInDegrees)
        p1 == cancelApproachClearance(p, aircraftModel).p
        p2 == exitHold(p1).p
        p3 == [p2 EXCEPT !.mcp = setHeadingHold(setHeadingFieldValue(p2.mcp, correctedHeading))]
    IN IF incremental
       THEN Ret(p3, TRUE, "logsay", "turn degrees " \o direction, headingInDegrees)
       ELSE Ret(p3, TRUE, "logsay", "fly heading", heading_to_string(correctedHeading))

\* a heading assignment that stays in the hold
maintainHeadingKeepingHold(p, aircraftModel, headingInDegrees, direction, incremental) ==
    LET correctedHeading ==
            IF incremental
            THEN IF direction = "right"
                 THEN radians_normalize(aircraftModel.heading + degreesToRadians(headingInDegrees))
                 ELSE radians_normalize(aircraftModel.heading - degreesToRadians(headingInDegrees))
            ELSE degreesToRadians(headingInDegrees)
        p1 == cancelApproachClearance(p, aircraftModel).p
    IN Ret([p1 EXCEPT !.mcp = setHeadingHold(setHeadingFieldValue(p1.mcp, correctedHeading))],
           TRUE, "logsay", "fly heading", heading_to_string(correctedHeading))

maintainHeading(p, aircraftModel, headingInDegrees, direction, incremental) ==
    LET nextHeadingInRadians == degreesToRadians(headingInDegrees)
        correctedHeading ==
            IF incremental
            THEN IF direction = "right"
                 THEN radians_normalize(aircraftModel.heading + nextHeadingInRadians)
                 ELSE radians_normalize(aircraftModel.heading - nextHeadingInRadians)
            ELSE nextHeadingInRadians
        p1 == cancelApproachClearance(p, aircraftModel).p
        p2 == exitHold(p1).p
        p3 == [p2 EXCEPT !.mcp = setHeadingHold(setHeadingFieldValue(p2.mcp, correctedHeading))]
    IN IF incremental
       THEN Ret(p3, TRUE, "logsay", "turn degrees " \o direction, headingInDegrees)
       ELSE IF direction # "none"
            THEN Ret(p3, TRUE, "logsay", "turn " \o direction \o " heading",
                     heading_to_string(correctedHeading))
            ELSE Ret(p3, TRUE, "logsay", "fly heading", heading_to_string(correctedHeading))

maintainPresentHeading(p, aircraftModel) ==
    LET p1 == cancelApproachClearance(p, aircraftModel).p
    IN Ret([p1 EXCEPT !.mcp = setHeadingHold(setHeadingFieldValue(p1.mcp, aircraftModel.heading))],
           TRUE, "logsay", "fly present heading", 0)

\* a speed assignment that refuses the top of the envelope
maintainSpeedBelowMax(p, speed, aircraftModel) ==
    IF ~(speed >= aircraftModel.model.speed.min /\ speed < aircraftModel.model.speed.max)
    THEN Ret(p, FALSE, "logsay", "unable to maintain knots due to performance", speed)
    ELSE Ret([p EXCEPT !.mcp = setSpeedHold(setSpeedFieldValue(p.mcp, speed))],
             TRUE, "logsay", "speed", speed)

maintainSpeed(p, speed, aircraftModel) ==
    IF ~isAbleToMaintainSpeed(aircraftModel.model, speed)
    THEN Ret(p, FALSE, "logsay", "unable to maintain knots due to performance", speed)
    ELSE Ret([p EXCEPT !.mcp = setSpeedHold(setSpeedFieldValue(p.mcp, speed))],
             TRUE, "logsay", "speed", speed)

\* Fms.updateStarLegForArrivalRunway: needs a STAR leg on the route
fmsUpdateStarLegForArrivalRunway(f, runwayModel) ==
    IF f.route = "star"
    THEN [fms |-> setArrivalRunway(f, runwayModel), success |-> TRUE]
    ELSE [fms |-> f, success |-> FALSE]

\* an arrival clearance that also has the aircraft join the route
applyArrivalProcedureJoiningTheRoute(p, routeString, airportName) ==
    LET r == replaceProcedure(p.fms, "star", routeString)
    IN IF ~r.success
       THEN Ret(p, FALSE, "fms", "arrival procedure not found", 0)
       ELSE Ret([p EXCEPT !.fms = r.fms, !.mcp = setHeadingLnav(p.mcp)],
                TRUE, "logsay", "cleared via the arrival", 0)

applyArrivalProcedure(p, routeString, airportName) ==
    LET r == replaceProcedure(p.fms, "star", routeString)
    IN IF ~r.success
       THEN Ret(p, FALSE, "fms", "arrival procedure not found", 0)
       ELSE Ret([p EXCEPT !.fms = r.fms], TRUE, "logsay", "cleared via the arrival", 0)

applyDepartureProcedure(p, routeString, airportIcao) ==
    LET r == replaceProcedure(p.fms, "sid", routeString)
    IN IF ~r.success
       THEN Ret(p, FALSE, "fms", "departure procedure not found", 0)
       ELSE Ret([p EXCEPT !.fms = r.fms, !.hasDepartureClearance = TRUE],
                TRUE, "logsay", "cleared to destination via the departure, then as filed", 0)

\* a route amendment that counts as a clearance whether or not the FMS took it
applyPartialRouteAmendmentAlwaysCleared(p, routeString) ==
    LET r == replaceProcedure(p.fms, "amended", routeString)
    IN Ret([p EXCEPT !.fms = r.fms, !.hasDepartureClearance = TRUE],
           r.success, "fms", IF r.success THEN "rerouting" ELSE "route amendment refused", 0)

applyPartialRouteAmendment(p, routeString) ==
    LET r == replaceProcedure(p.fms, "amended", routeString)
    IN IF r.success
       THEN Ret([p EXCEPT !.fms = r.fms, !.hasDepartureClearance = TRUE],
                TRUE, "fms", "rerouting", 0)
       ELSE Ret(p, FALSE, "fms", "route amendment refused", 0)

pilotReplaceFlightPlanWithNewRoute(p, routeString) ==
    LET r == replaceFlightPlanWithNewRoute(p.fms, routeString)
    IN IF r.success
       THEN Ret([p EXCEPT !.fms = r.fms, !.hasDepartureClearance = TRUE],
                TRUE, "fms", "rerouting", 0)
       ELSE Ret(p, FALSE, "fms", "route refused", 0)

\* a runway assignment handed to the FMS wherever the aircraft is
updateStarLegForArrivalRunwayAnywhere(p, aircraft, nextRunwayModel) ==
    LET r == fmsUpdateStarLegForArrivalRunway(p.fms, nextRunwayModel)
    IN Ret([p EXCEPT !.fms = r.fms], r.success, "fms", "expecting runway", 0)

updateStarLegForArrivalRunway(p, aircraft, nextRunwayModel) ==
    IF ~aircraft.airborne
    THEN Ret(p, FALSE, "string",
             "unable to accept arrival runway assignment until airborne", 0)
    ELSE LET r == fmsUpdateStarLegForArrivalRunway(p.fms, nextRunwayModel)
         IN Ret([p EXCEPT !.fms = r.fms], r.success, "fms", "expecting runway", 0)

\* a cancellation of the departure clearance that does not ask where the aircraft is
cancelDepartureClearanceAnywhere(p, aircraftModel) ==
    Ret([p EXCEPT !.hasDepartureClearance = FALSE], TRUE, "string",
        "roger, understand IFR clearance is cancelled, standing by", 0)

cancelDepartureClearance(p, aircraftModel) ==
    IF aircraftModel.airborne
    THEN NoResult(p)
    ELSE Ret([p EXCEPT !.hasDepartureClearance = FALSE], TRUE, "string",
             "roger, understand IFR clearance is cancelled, standing by", 0)

clearedAsFiled(p) ==
    Ret([p EXCEPT !.hasDepartureClearance = TRUE],
        TRUE, "logsay", "cleared to destination as filed", 0)

\* an optional altitude argument: absent, a number, or some other value
Undefined == [type |-> "undefined", value |-> 0]
NotANumber == [type |-> "string", value |-> 0]
Number(n) == [type |-> "number", value |-> n]

\* a climb via SID that takes any altitude the type can maintain
climbViaSidAnyDirection(p, aircraftModel, maximumAltitude) ==
    LET nextAltitude == IF maximumAltitude.type = "undefined"
                        THEN Number(p.fms.flightPlanAltitude)
                        ELSE maximumAltitude
    IN IF nextAltitude = Number(INVALID_NUMBER)
       THEN Ret(p, FALSE, "logsay", "unable to climb via SID, no altitude assigned", 0)
       ELSE IF nextAltitude.type # "number"
       THEN Ret(p, FALSE, "string", "unable to climb to altitude of", 0)
       ELSE IF ~isAbleToMaintainAltitude(aircraftModel.model, nextAltitude.value)
       THEN Ret(p, FALSE, "logsay", "unable to maintain due to performance",
                nextAltitude.value)
       ELSE Ret([p EXCEPT !.mcp = setSpeedVnav(setAltitudeVnav(
                                      setAltitudeFieldValue(p.mcp, nextAltitude.value)))],
                TRUE, "logsay", "climb via SID and maintain", nextAltitude.value)

\* a climb via SID that always takes the flight plan altitude
climbViaSidAsFiled(p, aircraftModel, maximumAltitude) ==
    LET nextAltitude == p.fms.flightPlanAltitude
    IN IF nextAltitude = INVALID_NUMBER
       THEN Ret(p, FALSE, "logsay", "unable to climb via SID, no altitude assigned", 0)
       ELSE IF ~isAbleToMaintainAltitude(aircraftModel.model, nextAltitude)
       THEN Ret(p, FALSE, "logsay", "unable to maintain due to performance", nextAltitude)
       ELSE IF nextAltitude < aircraftModel.altitude
       THEN Ret(p, FALSE, "logsay", "unable to comply, say again", 0)
       ELSE Ret([p EXCEPT !.mcp = setSpeedVnav(setAltitudeVnav(
                                      setAltitudeFieldValue(p.mcp, nextAltitude)))],
                TRUE, "logsay", "climb via SID and maintain", nextAltitude)

climbViaSid(p, aircraftModel, maximumAltitude) ==
    LET nextAltitude == IF maximumAltitude.type = "undefined"
                        THEN Number(p.fms.flightPlanAltitude)
                        ELSE maximumAltitude
    IN IF nextAltitude = Number(INVALID_NUMBER)
       THEN Ret(p, FALSE, "logsay", "unable to climb via SID, no altitude assigned", 0)
       ELSE IF nextAltitude.type # "number"
       THEN Ret(p, FALSE, "string", "unable to climb to altitude of", 0)
       ELSE IF ~isAbleToMaintainAltitude(aircraftModel.model, nextAltitude.value)
       THEN Ret(p, FALSE, "logsay", "unable to maintain due to performance",
                nextAltitude.value)
       ELSE IF nextAltitude.value < aircraftModel.altitude
       THEN Ret(p, FALSE, "logsay", "unable to comply, say again", 0)
       ELSE Ret([p EXCEPT !.mcp = setSpeedVnav(setAltitudeVnav(
                                      setAltitudeFieldValue(p.mcp, nextAltitude.value)))],
                TRUE, "logsay", "climb via SID and maintain", nextAltitude.value)

\* a descent via STAR that does not look for the sentinel
descendViaStarToAnyBottom(p, aircraftModel, bottomAltitude) ==
    LET nextAltitude == IF bottomAltitude.type = "undefined"
                        THEN Number(getBottomAltitude(p.fms))
                        ELSE bottomAltitude
    IN IF nextAltitude.type # "number"
       THEN Ret(p, FALSE, "string", "unable to descend to bottom altitude of", 0)
       ELSE IF aircraftModel.altitude < nextAltitude.value
       THEN Ret(p, FALSE, "logsay", "unable to comply, say again", 0)
       ELSE Ret([p EXCEPT !.mcp = setSpeedVnav(setAltitudeVnav(
                                      setAltitudeFieldValue(p.mcp, nextAltitude.value)))],
                TRUE, "logsay", "descend via STAR and maintain", nextAltitude.value)

descendViaStar(p, aircraftModel, bottomAltitude) ==
    LET nextAltitude == IF bottomAltitude.type = "undefined"
                        THEN Number(getBottomAltitude(p.fms))
                        ELSE bottomAltitude
    IN IF nextAltitude = Number(INVALID_NUMBER)
       THEN Ret(p, FALSE, "string", "unable to descend via STAR", 0)
       ELSE IF nextAltitude.type # "number"
       THEN Ret(p, FALSE, "string", "unable to descend to bottom altitude of", 0)
       ELSE IF aircraftModel.altitude < nextAltitude.value
       THEN Ret(p, FALSE, "logsay", "unable to comply, say again", 0)
       ELSE Ret([p EXCEPT !.mcp = setSpeedVnav(setAltitudeVnav(
                                      setAltitudeFieldValue(p.mcp, nextAltitude.value)))],
                TRUE, "logsay", "descend via STAR and maintain", nextAltitude.value)

\* a go-around that counts the thousand feet from the hundred below the field
goAroundFromTheHundredBelow(p, heading, speed, airportElevation) ==
    LET altitudeToMaintain == floor100(airportElevation) + 1000
        m == setSpeedHold(setSpeedFieldValue(
                 setAltitudeHold(setAltitudeFieldValue(
                     setHeadingHold(setHeadingFieldValue(p.mcp, heading)),
                     altitudeToMaintain)),
                 speed))
    IN Ret([p EXCEPT !.mcp = m], TRUE, "logsay",
           "go around, fly present heading, maintain", altitudeToMaintain)

goAround(p, heading, speed, airportElevation) ==
    LET altitudeToMaintain == ceil100(airportElevation) + 1000
        m == setSpeedHold(setSpeedFieldValue(
                 setAltitudeHold(setAltitudeFieldValue(
                     setHeadingHold(setHeadingFieldValue(p.mcp, heading)),
                     altitudeToMaintain)),
                 speed))
    IN Ret([p EXCEPT !.mcp = m], TRUE, "logsay",
           "go around, fly present heading, maintain", altitudeToMaintain)

_interceptCourse(p, datum, course) ==
    Ret([p EXCEPT !.mcp = setHeadingVorLoc(setCourseFieldValue(
                              setNav1Datum(p.mcp, datum), course))],
        TRUE, "logsay", "intercept localizer", 0)

_interceptGlidepath(p, datum, course, descentAngle) ==
    IF p.mcp.nav1Datum # datum
    THEN Ret(p, FALSE, "string",
             "cannot follow glidepath because we are using lateral navigation from a different origin", 0)
    ELSE IF p.mcp.course # course
    THEN Ret(p, FALSE, "string",
             "cannot follow glidepath because its course differs from that specified for lateral guidance", 0)
    ELSE Ret([p EXCEPT !.mcp = setAltitudeApproach(setDescentAngle(p.mcp, descentAngle)),
                       !.armed = [nav1Datum |-> datum, course |-> course]],
             TRUE, "string", "intercept glidepath", 0)

\* an approach cleared on the localizer alone: the glidepath is armed against
\* the reciprocal course, is refused, and the clearance is granted all the same
conductInstrumentApproachLateralOnly(p, aircraftModel, approachType, runwayModel) ==
    IF runwayModel = NoRunway
    THEN Ret(p, FALSE, "string", "the specified runway does not exist", 0)
    ELSE IF p.mcp.altitude < runwayModel.minimumGlideslopeInterceptAltitude
    THEN Ret(p, FALSE, "logsay",
             "unable ILS, our assigned altitude is below the minimum glideslope intercept altitude, request climb to",
             runwayModel.minimumGlideslopeInterceptAltitude)
    ELSE LET datum == runwayModel.positionModel
             course == runwayModel.angle
             lateralGuidance == _interceptCourse(p, datum, course)
             verticalGuidance == _interceptGlidepath(lateralGuidance.p, datum,
                                                     radians_normalize(course + 360),
                                                     runwayModel.ils.glideslopeGradient)
             p1 == exitHold(verticalGuidance.p).p
         IN [Ret([p1 EXCEPT !.fms = setArrivalRunway(p1.fms, runwayModel),
                            !.hasApproachClearance = TRUE],
                 TRUE, "logsay", "cleared approach", 0)
             EXCEPT !.lateralGuidance = IF lateralGuidance.success THEN "true" ELSE "false",
                    !.verticalGuidance = IF verticalGuidance.success THEN "true" ELSE "false"]

\* an approach that is cleared without leaving the hold
conductInstrumentApproachInHold(p, aircraftModel, approachType, runwayModel) ==
    IF runwayModel = NoRunway
    THEN Ret(p, FALSE, "string", "the specified runway does not exist", 0)
    ELSE IF p.mcp.altitude < runwayModel.minimumGlideslopeInterceptAltitude
    THEN Ret(p, FALSE, "logsay",
             "unable ILS, our assigned altitude is below the minimum glideslope intercept altitude, request climb to",
             runwayModel.minimumGlideslopeInterceptAltitude)
    ELSE LET datum == runwayModel.positionModel
             course == runwayModel.angle
             lateralGuidance == _interceptCourse(p, datum, course)
             verticalGuidance == _interceptGlidepath(lateralGuidance.p, datum, course,
                                                     runwayModel.ils.glideslopeGradient)
             p1 == verticalGuidance.p
         IN [Ret([p1 EXCEPT !.fms = setArrivalRunway(p1.fms, runwayModel),
                            !.hasApproachClearance = TRUE],
                 TRUE, "logsay", "cleared approach", 0)
             EXCEPT !.lateralGuidance = "true", !.verticalGuidance = "true"]

\* an approach that also refuses an assigned altitude equal to the minimum
conductInstrumentApproachAboveMinimum(p, aircraftModel, approachType, runwayModel) ==
    IF runwayModel = NoRunway
    THEN Ret(p, FALSE, "string", "the specified runway does not exist", 0)
    ELSE IF p.mcp.altitude <= runwayModel.minimumGlideslopeInterceptAltitude
    THEN Ret(p, FALSE, "logsay",
             "unable ILS, our assigned altitude is below the minimum glideslope intercept altitude, request climb to",
             runwayModel.minimumGlideslopeInterceptAltitude)
    ELSE LET datum == runwayModel.positionModel
             course == runwayModel.angle
             lateralGuidance == _interceptCourse(p, datum, course)
             verticalGuidance == _interceptGlidepath(lateralGuidance.p, datum, course,
                                                     runwayModel.ils.glideslopeGradient)
             p1 == exitHold(verticalGuidance.p).p
         IN [Ret([p1 EXCEPT !.fms = setArrivalRunway(p1.fms, runwayModel),
                            !.hasApproachClearance = TRUE],
                 TRUE, "logsay", "cleared approach", 0)
             EXCEPT !.lateralGuidance = "true", !.verticalGuidance = "true"]

\* aircraftModel.mcp is the ModeController the pilot was constructed with
\* an approach whose glidepath is compared with the lateral reference the
\* MCP held before the localizer of this runway was dialled
conductInstrumentApproachProtectingReference(p, aircraftModel, approachType, runwayModel) ==
    IF runwayModel = NoRunway
    THEN Ret(p, FALSE, "string", "the specified runway does not exist", 0)
    ELSE IF p.mcp.altitude < runwayModel.minimumGlideslopeInterceptAltitude
    THEN Ret(p, FALSE, "logsay",
             "unable ILS, our assigned altitude is below the minimum glideslope intercept altitude, request climb to",
             runwayModel.minimumGlideslopeInterceptAltitude)
    ELSE LET datum == runwayModel.positionModel
             course == runwayModel.angle
             descentAngle == runwayModel.ils.glideslopeGradient
             unarmed == p.mcp.nav1Datum = McpInit.nav1Datum
             verticalGuidance ==
                 IF unarmed
                 THEN _interceptGlidepath(_interceptCourse(p, datum, course).p, datum,
                                          course, descentAngle)
                 ELSE _interceptGlidepath(p, datum, course, descentAngle)
             sub(r) == [r EXCEPT
                 !.lateralGuidance = "true",
                 !.verticalGuidance = IF verticalGuidance.success THEN "true" ELSE "false"]
             p1 == exitHold(verticalGuidance.p).p
         IN IF ~verticalGuidance.success
            THEN sub(verticalGuidance)
            ELSE sub(Ret([p1 EXCEPT !.fms = setArrivalRunway(p1.fms, runwayModel),
                                    !.hasApproachClearance = TRUE],
                         TRUE, "logsay", "cleared approach", 0))

conductInstrumentApproach(p, aircraftModel, approachType, runwayModel) ==
    IF runwayModel = NoRunway
    THEN Ret(p, FALSE, "string", "the specified runway does not exist", 0)
    ELSE IF p.mcp.altitude < runwayModel.minimumGlideslopeInterceptAltitude
    THEN Ret(p, FALSE, "logsay",
             "unable ILS, our assigned altitude is below the minimum glideslope intercept altitude, request climb to",
             runwayModel.minimumGlideslopeInterceptAltitude)
    ELSE LET datum == runwayModel.positionModel
             course == runwayModel.angle
             descentAngle == runwayModel.ils.glideslopeGradient
             lateralGuidance == _interceptCourse(p, datum, course)
             verticalGuidance == _interceptGlidepath(lateralGuidance.p, datum, course,
                                                     descentAngle)
             sub(r) == [r EXCEPT
                 !.lateralGuidance = IF lateralGuidance.success THEN "true" ELSE "false",
                 !.verticalGuidance = IF verticalGuidance.success THEN "true" ELSE "false"]
             p1 == exitHold(verticalGuidance.p).p
         IN IF ~lateralGuidance.success
            THEN sub([lateralGuidance EXCEPT !.p = verticalGuidance.p])
            ELSE IF ~verticalGuidance.success
            THEN sub(verticalGuidance)
            ELSE sub(Ret([p1 EXCEPT !.fms = setArrivalRunway(p1.fms, runwayModel),
                                    !.hasApproachClearance = TRUE],
                         TRUE, "logsay", "cleared approach", 0))

\* a hold instruction that reads the hold back whatever the FMS answers
initiateHoldingPatternUnheard(p, fixName, holdParameters) ==
    LET problematicResponse == activateHoldForWaypointName(p.fms, fixName)
    IN Ret([p EXCEPT !.fms = problematicResponse.fms], TRUE, "string", "hold of", fixName)

initiateHoldingPattern(p, fixName, holdParameters) ==
    LET problematicResponse == activateHoldForWaypointName(p.fms, fixName)
    IN IF problematicResponse.response # "none"
       THEN Ret([p EXCEPT !.fms = problematicResponse.fms], FALSE, "fms",
                "unable to hold", fixName)
       ELSE Ret([p EXCEPT !.fms = problematicResponse.fms], TRUE, "string",
                "hold of", fixName)

\* a takeoff configuration that dials the initial altitude in any case
configureForTakeoffResettingAltitude(p, initialAltitude, runway, cruiseSpeed) ==
    LET m1 == setAltitudeFieldValue(p.mcp, initialAltitude)
        m2 == IF m1.altitudeMode = "OFF" THEN setAltitudeHold(m1) ELSE m1
        m3 == IF m2.heading = INVALID_NUMBER
              THEN setHeadingFieldValue(m2, runway.angle) ELSE m2
        m4 == IF m3.headingMode = "OFF" THEN setHeadingLnav(m3) ELSE m3
        m5 == IF m4.speed = INVALID_NUMBER
              THEN setSpeedFieldValue(m4, cruiseSpeed) ELSE m4
        m6 == IF m5.speedMode = "OFF" THEN setSpeedN1(m5) ELSE m5
    IN NoResult([p EXCEPT !.mcp = m6])

configureForTakeoff(p, initialAltitude, runway, cruiseSpeed) ==
    LET m1 == IF p.mcp.altitude = INVALID_NUMBER
              THEN setAltitudeFieldValue(p.mcp, initialAltitude) ELSE p.mcp
        m2 == IF m1.altitudeMode = "OFF" THEN setAltitudeHold(m1) ELSE m1
        m3 == IF m2.heading = INVALID_NUMBER
              THEN setHeadingFieldValue(m2, runway.angle) ELSE m2
        m4 == IF m3.headingMode = "OFF" THEN setHeadingLnav(m3) ELSE m3
        m5 == IF m4.speed = INVALID_NUMBER
              THEN setSpeedFieldValue(m4, cruiseSpeed) ELSE m4
        m6 == IF m5.speedMode = "OFF" THEN setSpeedN1(m5) ELSE m5
    IN NoResult([p EXCEPT !.mcp = m6])

\* a direct-to that leaves the hold before the route cursor moves
proceedDirectLeavingTheHoldFirst(p, waypointName) ==
    IF ~hasWaypointName(p.fms, waypointName)
    THEN Ret(p, FALSE, "string", "cannot proceed direct, it does not exist in our flight plan",
             waypointName)
    ELSE LET p1 == exitHold(p).p
             p2 == [p1 EXCEPT !.fms = skipToWaypointName(p1.fms, waypointName)]
         IN Ret([p2 EXCEPT !.mcp = setHeadingLnav(p2.mcp)],
                TRUE, "string", "proceed direct", waypointName)

\* a direct-to that moves the route cursor and leaves the heading mode alone
proceedDirectOnPresentHeading(p, waypointName) ==
    IF ~hasWaypointName(p.fms, waypointName)
    THEN Ret(p, FALSE, "string", "cannot proceed direct, it does not exist in our flight plan",
             waypointName)
    ELSE LET p1 == [p EXCEPT !.fms = skipToWaypointName(p.fms, waypointName)]
         IN Ret(exitHold(p1).p, TRUE, "string", "proceed direct", waypointName)

proceedDirect(p, waypointName) ==
    IF ~hasWaypointName(p.fms, waypointName)
    THEN Ret(p, FALSE, "string", "cannot proceed direct, it does not exist in our flight plan",
             waypointName)
    ELSE LET p1 == [p EXCEPT !.fms = skipToWaypointName(p.fms, waypointName)]
             p2 == exitHold(p1).p
         IN Ret([p2 EXCEPT !.mcp = setHeadingLnav(p2.mcp)],
                TRUE, "string", "proceed direct", waypointName)

\* a query that reports the assigned altitude in hundreds, as a readback does
sayTargetedAltitudeInHundreds(p) ==
    Ret(p, TRUE, "logsay", "we're assigned", floor100(p.mcp.altitude))

sayTargetedAltitude(p) == Ret(p, TRUE, "logsay", "we're assigned", p.mcp.altitude)

\* in LNAV the method reads this.positionModel, which a Pilot does not have
sayTargetHeading(p) ==
    CASE p.mcp.headingMode = "HOLD" ->
             Ret(p, TRUE, "logsay", "we're assigned heading", mcpHeadingInDegrees(p.mcp))
      [] p.mcp.headingMode = "VOR_LOC" ->
             Ret(p, TRUE, "logsay", "we're joining a course of", p.mcp.course)
      [] p.mcp.headingMode = "LNAV" ->
             [NoResult(p) EXCEPT !.readback = "TypeError"]
      [] OTHER ->
             Ret(p, TRUE, "logsay", "we haven't been assigned a heading", 0)

sayTargetedSpeed(p) == Ret(p, TRUE, "number", "", p.mcp.speed)

-----------------------------------------------------------------------------
(* The state machine: one action per instruction.  An action draws the     *)
(* call's arguments from the sets it is given.                             *)

\* the aircraft as the instruction finds it; it is on the ground at altitude 0
Aircraft(altitudes, headings) ==
    {[altitude |-> a, heading |-> h, speed |-> 250, airborne |-> a > 0,
      model |-> aircraftType] : a \in altitudes, h \in headings}

AircraftModels == Aircraft(AircraftAltitudes, AircraftHeadings)

\* an aircraft for the instructions that read nothing of it but its type
AnyAircraft == CHOOSE ac \in AircraftModels : TRUE

OptionalAltitudes ==
    {Undefined, NotANumber, Number(INVALID_NUMBER)} \cup {Number(a) : a \in RequestedAltitudes}

\* headings instructed in degrees; from heading 090 the two turns end on
\* heading 020, like the two headings given
HeadingInstructions ==
    {[headingInDegrees |-> 20, direction |-> "none", incremental |-> FALSE],
     [headingInDegrees |-> 20, direction |-> "left", incremental |-> FALSE],
     [headingInDegrees |-> 70, direction |-> "left", incremental |-> TRUE],
     [headingInDegrees |-> 290, direction |-> "right", incremental |-> TRUE]}

\* the runway taken off from
TakeoffRunways == {r \in Runways : r.name = "09R"}

\* headings and turn amounts instructed, in degrees
HeadingsGiven == {20, 350}

\* an absolute heading comes with or without a direction of turn, a turn
\* by an amount comes with its direction
TurnInstructions ==
    {[headingInDegrees |-> d, direction |-> dir, incremental |-> FALSE] :
        d \in HeadingsGiven, dir \in {"none", "left", "right"}}
    \cup
    {[headingInDegrees |-> d, direction |-> dir, incremental |-> TRUE] :
        d \in HeadingsGiven, dir \in {"left", "right"}}

\* aircraft heading 010, 090 and 350, in half degrees
TurningAircraft == Aircraft({1050}, {20, 180, 700})

RequestedSpeeds == {110, 250}

\* speeds just outside, at the ends of and inside the types' envelopes
EnvelopeSpeeds ==
    UNION {{t.speed.min - 1, t.speed.min, 250, t.speed.max, t.speed.max + 1} :
              t \in AircraftTypes}
AirportElevations == {0, 13}

Self ==
    [mcp |-> mcp, fms |-> fms, hasApproachClearance |-> hasApproachClearance,
     hasDepartureClearance |-> hasDepartureClearance, armed |-> armed]

\* the call is made: the pilot becomes r.p; last keeps the result and whether
\* an approach clearance was held, and a hold was flown at the current
\* waypoint, when the call came
Do(op, r) ==
    /\ mcp' = r.p.mcp
    /\ fms' = r.p.fms
    /\ hasApproachClearance' = r.p.hasApproachClearance
    /\ hasDepartureClearance' = r.p.hasDepartureClearance
    /\ armed' = r.p.armed
    /\ last' = [op |-> op, returned |-> r.returned, success |-> r.success,
                readback |-> r.readback, log |-> r.log.text,
                hadApproachClearance |-> hasApproachClearance,
                hadHold |-> isHoldWaypoint(fms, fms.currentWaypoint)]
    /\ UNCHANGED <<aircraftType, airport, runwayUse>>

Init ==
    /\ mcp = McpInit
    /\ fms \in {FmsInit(fpa) : fpa \in FlightPlanAltitudes}
    /\ hasApproachClearance = FALSE
    /\ hasDepartureClearance = FALSE
    /\ armed = [nav1Datum |-> "none", course |-> INVALID_NUMBER]
    /\ aircraftType \in AircraftTypes
    /\ airport \in Airports
    /\ runwayUse = NoRunwayUse
    /\ last = [op |-> "constructor", returned |-> FALSE, success |-> FALSE,
               readback |-> "none", log |-> "", hadApproachClearance |-> FALSE,
               hadHold |-> FALSE]

MaintainAltitude(altitudes, acs) ==
    \E altitude \in altitudes, expedite \in BOOLEAN, soft \in BOOLEAN, ac \in acs :
        Do("maintainAltitude", maintainAltitude(Self, altitude, expedite, soft, airport, ac))

MaintainHeading(instructions, acs) ==
    \E ac \in acs, i \in instructions :
        Do("maintainHeading",
           maintainHeading(Self, ac, i.headingInDegrees, i.direction, i.incremental))

MaintainPresentHeading(acs) ==
    \E ac \in acs : Do("maintainPresentHeading", maintainPresentHeading(Self, ac))

MaintainSpeed(speeds) ==
    \E speed \in speeds : Do("maintainSpeed", maintainSpeed(Self, speed, AnyAircraft))

CancelApproachClearance(acs) ==
    \E ac \in acs : Do("cancelApproachClearance", cancelApproachClearance(Self, ac))

ClimbViaSid(altitudes, acs) ==
    \E ac \in acs, maximumAltitude \in altitudes :
        Do("climbViaSid", climbViaSid(Self, ac, maximumAltitude))

DescendViaStar(altitudes, acs) ==
    \E ac \in acs, bottomAltitude \in altitudes :
        Do("descendViaStar", descendViaStar(Self, ac, bottomAltitude))

GoAround(acs, elevations) ==
    \E ac \in acs, airportElevation \in elevations :
        Do("goAround", goAround(Self, ac.heading, ac.speed, airportElevation))

ConductInstrumentApproach(runways) ==
    \E runway \in runways :
        Do("conductInstrumentApproach",
           conductInstrumentApproach(Self, AnyAircraft, "ils", runway))

ConfigureForTakeoff(runways) ==
    \E runway \in runways :
        Do("configureForTakeoff", configureForTakeoff(Self, 1000, runway, 250))

ShouldExpediteAltitudeChange ==
    Do("shouldExpediteAltitudeChange", shouldExpediteAltitudeChange(Self))

ProceedDirect(names) ==
    \E waypointName \in names : Do("proceedDirect", proceedDirect(Self, waypointName))

InitiateHoldingPattern(names) ==
    \E fixName \in names :
        Do("initiateHoldingPattern", initiateHoldingPattern(Self, fixName, <<>>))

ExitHold == Do("exitHold", exitHold(Self))

CancelDepartureClearance(acs) ==
    \E ac \in acs : Do("cancelDepartureClearance", cancelDepartureClearance(Self, ac))

ClearedAsFiled == Do("clearedAsFiled", clearedAsFiled(Self))

ApplyDepartureProcedure(routeStrings) ==
    \E routeString \in routeStrings :
        Do("applyDepartureProcedure", applyDepartureProcedure(Self, routeString, "KLAS"))

ApplyArrivalProcedure(routeStrings) ==
    \E routeString \in routeStrings :
        Do("applyArrivalProcedure", applyArrivalProcedure(Self, routeString, "KLAS"))

ApplyPartialRouteAmendment(routeStrings) ==
    \E routeString \in routeStrings :
        Do("applyPartialRouteAmendment", applyPartialRouteAmendment(Self, routeString))

ReplaceFlightPlanWithNewRoute(routeStrings) ==
    \E routeString \in routeStrings :
        Do("replaceFlightPlanWithNewRoute",
           pilotReplaceFlightPlanWithNewRoute(Self, routeString))

UpdateStarLegForArrivalRunway(acs, runways) ==
    \E ac \in acs, nextRunwayModel \in runways :
        Do("updateStarLegForArrivalRunway",
           updateStarLegForArrivalRunway(Self, ac, nextRunwayModel))

SayTargetedAltitude == Do("sayTargetedAltitude", sayTargetedAltitude(Self))

SayTargetHeading == Do("sayTargetHeading", sayTargetHeading(Self))

SayTargetedSpeed == Do("sayTargetedSpeed", sayTargetedSpeed(Self))

\* the instructions that drive the MCP, with every requested altitude
Next ==
    \/ MaintainAltitude(RequestedAltitudes, AircraftModels)
    \/ MaintainHeading(HeadingInstructions, AircraftModels)
    \/ MaintainPresentHeading(AircraftModels)
    \/ MaintainSpeed(RequestedSpeeds)
    \/ CancelApproachClearance(AircraftModels)
    \/ ClimbViaSid(OptionalAltitudes, AircraftModels)
    \/ DescendViaStar(OptionalAltitudes, AircraftModels)
    \/ GoAround(AircraftModels, AirportElevations)
    \/ ConductInstrumentApproach(Runways \cup {NoRunway})
    \/ ConfigureForTakeoff(TakeoffRunways)
    \/ ShouldExpediteAltitudeChange
    \/ ProceedDirect(WaypointNames \cup {UnknownWaypointName})

Spec == Init /\ [][Next]_vars

\* the instructions that touch holds and approaches, with holds being activated;
\* the altitudes asked for lie below, at and above the runways' minimum
\* glideslope intercept altitudes
HoldAltitudes == {a \in RequestedAltitudes : 1000 <= a /\ a <= 1200}

NextHold ==
    \/ MaintainAltitude(HoldAltitudes, AircraftModels)
    \/ MaintainHeading(HeadingInstructions, AircraftModels)
    \/ CancelApproachClearance(AircraftModels)
    \/ ConductInstrumentApproach(Runways \cup {NoRunway})
    \/ ProceedDirect(WaypointNames \cup {UnknownWaypointName})
    \/ InitiateHoldingPattern(WaypointNames \cup {UnknownWaypointName})
    \/ ExitHold

SpecHold == Init /\ [][NextHold]_vars

\* the instructions that assign an altitude or an altitude mode, and the
\* route cursor that decides the bottom altitude of the arrival
NextAltitude ==
    \/ MaintainAltitude(RequestedAltitudes, AircraftModels)
    \/ ClimbViaSid(OptionalAltitudes, AircraftModels)
    \/ DescendViaStar(OptionalAltitudes, AircraftModels)
    \/ ConductInstrumentApproach(Runways \cup {NoRunway})
    \/ ProceedDirect(WaypointNames \cup {UnknownWaypointName})

SpecAltitude == Init /\ [][NextAltitude]_vars

\* the three assignments with the queries that read them back; a climb via
\* SID and the takeoff configuration bring the other modes
NextQuery ==
    \/ MaintainAltitude(RequestedAltitudes, AircraftModels)
    \/ MaintainHeading(TurnInstructions, TurningAircraft)
    \/ MaintainSpeed(EnvelopeSpeeds)
    \/ ClimbViaSid({Undefined}, AircraftModels)
    \/ ConfigureForTakeoff(TakeoffRunways)
    \/ SayTargetedAltitude
    \/ SayTargetHeading
    \/ SayTargetedSpeed

SpecQuery == Init /\ [][NextQuery]_vars

\* flight plans with a cruise altitude the type can maintain, with none, and
\* with one above the type's ceiling
ProcedureFlightPlanAltitudes == {1200, INVALID_NUMBER, 1400}

\* aircraft on the approach: below the airspace floor, between two hundreds,
\* and at the ceiling
ApproachingAircraft == Aircraft({950, 1050, 1300}, AircraftHeadings)

InitProcedure ==
    /\ mcp = McpInit
    /\ fms \in {FmsInit(fpa) : fpa \in ProcedureFlightPlanAltitudes}
    /\ hasApproachClearance = FALSE
    /\ hasDepartureClearance = FALSE
    /\ armed = [nav1Datum |-> "none", course |-> INVALID_NUMBER]
    /\ aircraftType \in AircraftTypes
    /\ airport \in Airports
    /\ runwayUse = NoRunwayUse
    /\ last = [op |-> "constructor", returned |-> FALSE, success |-> FALSE,
               readback |-> "none", log |-> "", hadApproachClearance |-> FALSE,
               hadHold |-> FALSE]

\* the procedures (SID, STAR, approach and its cancellation) and the route
\* cursor that decides the bottom altitude of the arrival
NextProcedure ==
    \/ ClimbViaSid(OptionalAltitudes, AircraftModels)
    \/ DescendViaStar(OptionalAltitudes, AircraftModels)
    \/ ProceedDirect(WaypointNames \cup {UnknownWaypointName})
    \/ MaintainSpeed(RequestedSpeeds)
    \/ ConductInstrumentApproach(Runways \cup {NoRunway})
    \/ CancelApproachClearance(ApproachingAircraft)

SpecProcedure == InitProcedure /\ [][NextProcedure]_vars

\* aircraft at the gate or on the runway, and after takeoff
DepartingAircraft == Aircraft({0, 1050}, AircraftHeadings)

\* a departure: the clearance given and withdrawn, the takeoff, the climb
NextDeparture ==
    \/ ClearedAsFiled
    \/ ApplyDepartureProcedure(RouteStrings)
    \/ CancelDepartureClearance(DepartingAircraft)
    \/ ConfigureForTakeoff(TakeoffRunways)
    \/ ClimbViaSid({Undefined, Number(1300)}, DepartingAircraft)
    \/ MaintainAltitude(HoldAltitudes, DepartingAircraft)
    \/ MaintainSpeed(RequestedSpeeds)

SpecDeparture == Init /\ [][NextDeparture]_vars

\* initial altitudes and cruise speeds a takeoff is configured with
InitialAltitudes == {1000, 1100}
CruiseSpeeds == {250, 280}

\* a flight from the takeoff to the missed approach: the takeoff
\* configuration, the assignments, the climb, the approach, the go-around
NextGoAround ==
    \/ ConfigureForTakeoff(TakeoffRunways)
    \/ MaintainAltitude(HoldAltitudes, AircraftModels)
    \/ MaintainHeading(HeadingInstructions, AircraftModels)
    \/ MaintainSpeed(RequestedSpeeds)
    \/ ClimbViaSid({Undefined}, AircraftModels)
    \/ ConductInstrumentApproach(Runways)
    \/ GoAround(AircraftModels, AirportElevations)

SpecGoAround == Init /\ [][NextGoAround]_vars

\* the route instructions, with the clearance withdrawn on the ground, a
\* heading assigned and the route cursor moved in between
NextRoute ==
    \/ ApplyArrivalProcedure(RouteStrings)
    \/ ApplyDepartureProcedure(RouteStrings)
    \/ ApplyPartialRouteAmendment(RouteStrings)
    \/ ReplaceFlightPlanWithNewRoute(RouteStrings)
    \/ UpdateStarLegForArrivalRunway(DepartingAircraft, Runways)
    \/ CancelDepartureClearance(DepartingAircraft)
    \/ MaintainHeading(HeadingInstructions, AircraftModels)
    \/ ProceedDirect(WaypointNames \cup {UnknownWaypointName})
    \/ InitiateHoldingPattern(WaypointNames \cup {UnknownWaypointName})

SpecRoute == Init /\ [][NextRoute]_vars

\* altitudes asked for to the foot: on a hundred, just below and just
\* above the middle between two hundreds
ReadbackAltitudes == {a + d : a \in HoldAltitudes, d \in {0, 49, 51}}

\* altitudes assigned to the foot, with the approach an assignment cancels
\* and the query that reports the stored target
NextReadback ==
    \/ MaintainAltitude(ReadbackAltitudes, AircraftModels)
    \/ MaintainHeading(HeadingInstructions, AircraftModels)
    \/ MaintainSpeed(RequestedSpeeds)
    \/ ConductInstrumentApproach(Runways)
    \/ SayTargetedAltitude

SpecReadback == Init /\ [][NextReadback]_vars

\* aircraft types whose ceiling lies above the airspace ceiling, and at it
CeilingTypes ==
    AircraftTypes \cup
    {[ceiling |-> a.maxAssignableAltitude, speed |-> t.speed] :
        a \in Airports, t \in AircraftTypes}

\* an aircraft in level flight inside the airspace
LevelAircraft == Aircraft({1050}, AircraftHeadings)

InitCeiling ==
    /\ mcp = McpInit
    /\ fms \in {FmsInit(fpa) : fpa \in FlightPlanAltitudes}
    /\ hasApproachClearance = FALSE
    /\ hasDepartureClearance = FALSE
    /\ armed = [nav1Datum |-> "none", course |-> INVALID_NUMBER]
    /\ aircraftType \in CeilingTypes
    /\ airport \in Airports
    /\ runwayUse = NoRunwayUse
    /\ last = [op |-> "constructor", returned |-> FALSE, success |-> FALSE,
               readback |-> "none", log |-> "", hadApproachClearance |-> FALSE,
               hadHold |-> FALSE]

\* altitudes assigned to types of either ceiling, with the approach and the
\* heading an assignment cancels and keeps
NextCeiling ==
    \/ MaintainAltitude(RequestedAltitudes, LevelAircraft)
    \/ MaintainHeading(HeadingInstructions, LevelAircraft)
    \/ MaintainSpeed(RequestedSpeeds)
    \/ ConductInstrumentApproach(Runways)
    \/ ShouldExpediteAltitudeChange

SpecCeiling == InitCeiling /\ [][NextCeiling]_vars

\* altitudes asked for inside the airspace and above the type's ceiling
ExpediteAltitudes == {a \in RequestedAltitudes : a >= 1200}

\* every instruction that writes to the MCP, each with few arguments
NextExpedite ==
    \/ MaintainAltitude(ExpediteAltitudes, LevelAircraft)
    \/ ShouldExpediteAltitudeChange
    \/ MaintainPresentHeading(LevelAircraft)
    \/ MaintainSpeed(RequestedSpeeds)
    \/ ClimbViaSid({Undefined}, LevelAircraft)
    \/ DescendViaStar({Undefined}, LevelAircraft)
    \/ ConductInstrumentApproach(TakeoffRunways)
    \/ CancelApproachClearance(LevelAircraft)
    \/ GoAround(LevelAircraft, AirportElevations)
    \/ ConfigureForTakeoff(TakeoffRunways)
    \/ ProceedDirect(WaypointNames)

SpecExpedite == Init /\ [][NextExpedite]_vars

-----------------------------------------------------------------------------
(* AircraftTypeDefinitionModel: the separation on the runway.  A type's    *)
(* category.srs is a same-runway-separation category: 1, 2 or 3 in the     *)
(* aircraft data, absent in some, and here also another number and a value *)
(* that is not a number.                                                   *)

SrsCategories == {Undefined, NotANumber} \cup {Number(n) : n \in 1..4}

\* types of each category, and of each ceiling for the Pilot's capability check
SeparationTypes ==
    {[ceiling |-> t.ceiling, speed |-> t.speed, category |-> [srs |-> c]] :
        t \in CeilingTypes, c \in SrsCategories}

\* a separation that looks at the type's own category alone
calculateRunwaySeparationDistanceInFeetByOwnCategory(self, previousTypeModel) ==
    CASE self.category.srs = Number(1) -> 3000
      [] self.category.srs = Number(2) -> 4500
      [] OTHER -> 6000

calculateRunwaySeparationDistanceInFeet(self, previousTypeModel) ==
    IF \/ previousTypeModel.category.srs.type = "undefined"
       \/ previousTypeModel.category.srs = Number(3)
    THEN 6000
    ELSE CASE self.category.srs = Number(1) -> 3000
           [] self.category.srs = Number(2) -> 4500
           [] OTHER -> 6000

InitSeparation ==
    /\ mcp = McpInit
    /\ fms \in {FmsInit(fpa) : fpa \in FlightPlanAltitudes}
    /\ hasApproachClearance = FALSE
    /\ hasDepartureClearance = FALSE
    /\ armed = [nav1Datum |-> "none", course |-> INVALID_NUMBER]
    /\ aircraftType \in SeparationTypes
    /\ airport \in Airports
    /\ runwayUse = NoRunwayUse
    /\ last = [op |-> "constructor", returned |-> FALSE, success |-> FALSE,
               readback |-> "none", log |-> "", hadApproachClearance |-> FALSE,
               hadHold |-> FALSE]

\* the next aircraft comes to the runway the present one has used: its type
\* is asked for the separation it owes to the type before it
TakeRunway(types) ==
    \E nextType \in types :
        /\ aircraftType' = nextType
        /\ runwayUse' = [previousType |-> aircraftType,
                         separation |->
                             calculateRunwaySeparationDistanceInFeet(nextType,
                                                                     aircraftType)]
        /\ last' = [last EXCEPT !.op = "calculateRunwaySeparationDistanceInFeet",
                                !.returned = TRUE, !.success = TRUE,
                                !.readback = "number", !.log = ""]
        /\ UNCHANGED <<mcp, fms, hasApproachClearance, hasDepartureClearance, armed,
                       airport>>

NextSeparation == TakeRunway(SeparationTypes)

SpecSeparation == InitSeparation /\ [][NextSeparation]_vars

-----------------------------------------------------------------------------
(* The claims.  A claim about what one call does is stated of the call     *)
(* made in the current state with each of its arguments: every reachable   *)
(* state is a state the call can come in.                                  *)

\* the step is the call of op whose result is r
Called(op, r) ==
    /\ last'.op = op /\ last'.success = r.success /\ last'.log = r.log.text
    /\ Self' = r.p

\* C1: a requested altitude above the type's ceiling makes maintainAltitude
\* return success = false with the log "unable to maintain <a> due to
\* performance" and leaves the MCP altitude target as it was.
C1_UnableLeavesAltitudeTarget ==
    [][\A altitude \in RequestedAltitudes, expedite \in BOOLEAN, soft \in BOOLEAN,
          ac \in AircraftModels :
           LET r == maintainAltitude(Self, altitude, expedite, soft, airport, ac)
           IN (altitude > aircraftType.ceiling /\ Called("maintainAltitude", r)) =>
                  /\ r.returned /\ ~r.success
                  /\ r.log = [text |-> "unable to maintain due to performance",
                              n |-> altitude]
                  /\ mcp'.altitude = mcp.altitude]_vars

\* C2 as claimed: a successful maintainAltitude(x) sets the target to x for
\* min <= x <= max with or without soft ceiling, to min below min, to max
\* above max without soft ceiling, and to max + 1 only with soft ceiling
\* and x above max.
C2_ClampAsClaimed ==
    [][\A x \in RequestedAltitudes, expedite \in BOOLEAN, soft \in BOOLEAN,
          ac \in AircraftModels :
           LET r == maintainAltitude(Self, x, expedite, soft, airport, ac)
               lo == airport.minAssignableAltitude
               hi == airport.maxAssignableAltitude
           IN (x <= aircraftType.ceiling /\ Called("maintainAltitude", r)) =>
                  /\ r.success
                  /\ (lo <= x /\ x <= hi) => mcp'.altitude = x
                  /\ x < lo => mcp'.altitude = lo
                  /\ (x > hi /\ ~soft) => mcp'.altitude = hi
                  /\ mcp'.altitude = hi + 1 => (soft /\ x > hi)]_vars

\* C2 as amended: the target is max + 1 when soft ceiling is enabled and
\* x >= max (x = max included); otherwise it is x for min <= x <= max, min
\* for x < min and max for x > max (the airport's min lies below its max).
C2_ClampAmended ==
    \A x \in RequestedAltitudes, expedite \in BOOLEAN, soft \in BOOLEAN,
       ac \in AircraftModels :
        x <= aircraftType.ceiling =>
            LET r == maintainAltitude(Self, x, expedite, soft, airport, ac)
                lo == airport.minAssignableAltitude
                hi == airport.maxAssignableAltitude
            IN /\ r.success
               /\ (soft /\ x >= hi) => r.p.mcp.altitude = hi + 1
               /\ (lo <= x /\ x <= hi /\ ~(soft /\ x = hi)) => r.p.mcp.altitude = x
               /\ x < lo => r.p.mcp.altitude = lo
               /\ (x > hi /\ ~soft) => r.p.mcp.altitude = hi
               /\ r.p.mcp.altitude = hi + 1 => (soft /\ x >= hi)

\* a successful maintainAltitude has left the target one above the airspace ceiling
C2_SoftCeilingReached ==
    /\ last.op = "maintainAltitude" /\ last.success
    /\ mcp.altitude = airport.maxAssignableAltitude + 1

\* C3: conductInstrumentApproach turns hasApproachClearance to true only
\* when the lateral and the vertical sub-step both succeeded; when either
\* fails the call fails and the flag keeps its value.
C3_ClearanceNeedsBothGuidances ==
    \A runway \in Runways \cup {NoRunway} :
        LET r == conductInstrumentApproach(Self, AnyAircraft, "ils", runway)
        IN /\ (r.p.hasApproachClearance /\ ~hasApproachClearance) =>
                  (r.lateralGuidance = "true" /\ r.verticalGuidance = "true")
           /\ (r.lateralGuidance = "false" \/ r.verticalGuidance = "false") =>
                  (~r.success /\ r.p.hasApproachClearance = hasApproachClearance)
           /\ r.success => r.p.hasApproachClearance

\* an approach has just been cleared to an aircraft that held no clearance
C3_ApproachCleared ==
    /\ last.op = "conductInstrumentApproach" /\ last.success
    /\ ~last.hadApproachClearance /\ hasApproachClearance

\* C4: with no runway, or with the MCP altitude strictly below the runway's
\* minimum glideslope intercept altitude, conductInstrumentApproach fails
\* and changes nothing (MCP, FMS runway and holds, clearance flags); an MCP
\* altitude equal to the minimum is accepted.
C4_RefusedApproachChangesNothing ==
    \A runway \in Runways \cup {NoRunway} :
        LET r == conductInstrumentApproach(Self, AnyAircraft, "ils", runway)
        IN /\ (runway = NoRunway
                  \/ mcp.altitude < runway.minimumGlideslopeInterceptAltitude) =>
                  (r.returned /\ ~r.success /\ r.p = Self)
           /\ (runway # NoRunway
                  /\ mcp.altitude = runway.minimumGlideslopeInterceptAltitude) =>
                  r.success

\* an approach was refused while a hold was active and another approach was cleared
C4_RefusedWhileHoldingOnApproach ==
    /\ last.op = "conductInstrumentApproach" /\ ~last.success
    /\ fms.holds # {} /\ hasApproachClearance

\* C5: altitude mode APPROACH implies heading mode VOR_LOC with the
\* nav1Datum and course the glidepath was armed against.
C5_ApproachNeedsItsLocalizer ==
    mcp.altitudeMode = "APPROACH" =>
        /\ mcp.headingMode = "VOR_LOC"
        /\ mcp.nav1Datum = armed.nav1Datum
        /\ mcp.course = armed.course

\* C6: without an approach clearance cancelApproachClearance fails and
\* changes nothing; with one it succeeds and leaves the flag false, so the
\* call after it fails.
C6_CancelApproachOnce ==
    \A ac \in AircraftModels :
        LET r == cancelApproachClearance(Self, ac)
        IN /\ ~hasApproachClearance => (r.returned /\ ~r.success /\ r.p = Self)
           /\ hasApproachClearance =>
                  /\ r.success /\ ~r.p.hasApproachClearance
                  /\ \A again \in AircraftModels :
                         ~cancelApproachClearance(r.p, again).success

\* an approach clearance has just been cancelled
C6_ApproachCancelled ==
    /\ last.op = "cancelApproachClearance" /\ last.success
    /\ last.hadApproachClearance /\ ~hasApproachClearance

\* C7: climbViaSid fails when its resolved target lies strictly below the
\* aircraft's altitude, descendViaStar fails when its resolved target lies
\* strictly above it, and a failure leaves the pilot (MCP altitude target,
\* altitude mode, speed mode and the rest) as it was; a target equal to the
\* aircraft's altitude is accepted by both.
C7_DirectionOfProcedureAltitude ==
    \A ac \in AircraftModels, given \in OptionalAltitudes :
        LET climb == climbViaSid(Self, ac, given)
            descend == descendViaStar(Self, ac, given)
            top == IF given = Undefined THEN Number(fms.flightPlanAltitude) ELSE given
            bottom == IF given = Undefined THEN Number(getBottomAltitude(fms)) ELSE given
        IN /\ (top.type = "number" /\ top.value < ac.altitude) =>
                  (climb.returned /\ ~climb.success /\ climb.p = Self)
           /\ (bottom.type = "number" /\ bottom.value > ac.altitude) =>
                  (descend.returned /\ ~descend.success /\ descend.p = Self)
           /\ (top.type = "number" /\ top.value = ac.altitude) =>
                  (climb.success /\ climb.p.mcp.altitude = ac.altitude)
           /\ (bottom.type = "number" /\ bottom.value = ac.altitude) =>
                  (descend.success /\ descend.p.mcp.altitude = ac.altitude)
           /\ ~climb.success => climb.p = Self
           /\ ~descend.success => descend.p = Self

\* a climb via SID was refused for leading downward, after an instruction
\* that had assigned an altitude and modes
C7_ClimbRefusedDownward ==
    /\ last.op = "climbViaSid" /\ ~last.success
    /\ last.log = "unable to comply, say again"
    /\ mcp.altitudeMode # "OFF"

\* the part of the pilot that C8 and C9 speak of
PilotState == <<mcp, fms, hasApproachClearance, hasDepartureClearance>>

\* C8: a call that returns success = false leaves the MCP, the FMS and both
\* clearance flags exactly as they were before the call.
C8_FailureChangesNothing ==
    [][(last'.returned /\ ~last'.success) => PilotState' = PilotState]_vars

\* C9: a call that changes the MCP, the FMS or a clearance flag returns a
\* readback that carries a log form and a say form (configureForTakeoff,
\* which documents no result, is left aside).
C9_ChangeReturnsLogAndSay ==
    [][(PilotState' # PilotState /\ last'.op # "configureForTakeoff")
           => last'.readback = "logsay"]_vars

\* C10: after a successful maintainAltitude the approach clearance is gone
\* and the altitude mode is HOLD, whatever they were before the call.
C10_MaintainAltitudeCancelsApproach ==
    \A altitude \in RequestedAltitudes, expedite \in BOOLEAN, soft \in BOOLEAN,
       ac \in AircraftModels :
        LET r == maintainAltitude(Self, altitude, expedite, soft, airport, ac)
        IN r.success => (~r.p.hasApproachClearance /\ r.p.mcp.altitudeMode = "HOLD")

\* an altitude was assigned to an aircraft that was cleared for the approach
C10_AltitudeAssignedOnApproach ==
    /\ last.op = "maintainAltitude" /\ last.success
    /\ last.hadApproachClearance
    /\ ~hasApproachClearance /\ mcp.altitudeMode = "HOLD"

\* C11: after every maintainHeading call the approach clearance is gone,
\* the FMS current waypoint has no active hold, and the heading mode is HOLD
\* with the heading target the call computed from its arguments.
C11_HeadingLeavesApproachAndHold ==
    \A ac \in AircraftModels \cup TurningAircraft, i \in TurnInstructions :
        LET r == maintainHeading(Self, ac, i.headingInDegrees, i.direction, i.incremental)
            given == degreesToRadians(i.headingInDegrees)
            computed == IF ~i.incremental THEN given
                        ELSE IF i.direction = "right"
                        THEN radians_normalize(ac.heading + given)
                        ELSE radians_normalize(ac.heading - given)
        IN /\ r.returned /\ r.success
           /\ ~r.p.hasApproachClearance
           /\ ~isHoldWaypoint(r.p.fms, r.p.fms.currentWaypoint)
           /\ r.p.mcp.headingMode = "HOLD"
           /\ r.p.mcp.heading = computed

\* a heading was assigned to an aircraft that was cleared for the approach
\* and holding at its current waypoint
C11_HeadingAssignedInHoldOnApproach ==
    /\ last.op = "maintainHeading" /\ last.success
    /\ last.hadApproachClearance /\ last.hadHold
    /\ ~hasApproachClearance /\ ~isHoldWaypoint(fms, fms.currentWaypoint)
    /\ mcp.headingMode = "HOLD"

\* C12: maintainSpeed(s) fails and leaves the MCP speed target and speed
\* mode as they were when s lies below speed.min or above speed.max of the
\* type; for speed.min <= s <= speed.max, the ends included, it succeeds,
\* sets the speed target to s and the speed mode to HOLD.
C12_SpeedWithinEnvelope ==
    \A speed \in EnvelopeSpeeds, ac \in AircraftModels :
        LET r == maintainSpeed(Self, speed, ac)
            outside == speed < aircraftType.speed.min \/ speed > aircraftType.speed.max
        IN /\ r.returned
           /\ outside => /\ ~r.success
                          /\ r.p.mcp.speed = mcp.speed
                          /\ r.p.mcp.speedMode = mcp.speedMode
           /\ ~outside => /\ r.success
                           /\ r.p.mcp.speed = speed
                           /\ r.p.mcp.speedMode = "HOLD"

\* a speed outside the envelope was refused while the speed mode was VNAV
\* with the top of the envelope as target
C12_SpeedRefusedInVnav ==
    /\ last.op = "maintainSpeed" /\ ~last.success
    /\ mcp.speedMode = "VNAV" /\ mcp.speed = aircraftType.speed.max

\* C13: climbViaSid takes the maximum altitude given, and the FMS flight
\* plan altitude when none is given; it fails when that altitude is the
\* INVALID sentinel, is not a number or lies above the type's ceiling; on
\* success the MCP altitude target is that altitude and the altitude mode
\* and the speed mode are VNAV.
C13_ClimbViaSidAltitude ==
    \A ac \in AircraftModels, given \in OptionalAltitudes :
        LET r == climbViaSid(Self, ac, given)
            top == IF given = Undefined THEN Number(fms.flightPlanAltitude) ELSE given
            refused == \/ top = Number(INVALID_NUMBER)
                       \/ top.type # "number"
                       \/ top.value > aircraftType.ceiling
        IN /\ r.returned
           /\ refused => (~r.success /\ r.p = Self)
           /\ (~refused /\ top.value >= ac.altitude) => r.success
           /\ r.success => /\ r.p.mcp.altitude = top.value
                           /\ r.p.mcp.altitudeMode = "VNAV"
                           /\ r.p.mcp.speedMode = "VNAV"

\* a climb via SID with no altitude given was accepted while the speed was
\* held, and climbs to the flight plan altitude
C13_ClimbToFlightPlanAltitude ==
    /\ last.op = "climbViaSid" /\ last.success
    /\ mcp.altitude = fms.flightPlanAltitude
    /\ mcp.altitudeMode = "VNAV" /\ mcp.speedMode = "VNAV"
    /\ mcp.speed # INVALID_NUMBER

\* C14: descendViaStar takes the bottom altitude given, and the bottom
\* altitude the FMS resolves when none is given; when that is the INVALID
\* sentinel the call fails and the sentinel is not written to the MCP
\* altitude target; on success the MCP altitude target is the resolved
\* altitude and the altitude mode and the speed mode are VNAV.
C14_DescendViaStarAltitude ==
    \A ac \in AircraftModels, given \in OptionalAltitudes :
        LET r == descendViaStar(Self, ac, given)
            bottom == IF given = Undefined THEN Number(getBottomAltitude(fms)) ELSE given
        IN /\ r.returned
           /\ bottom = Number(INVALID_NUMBER) => (~r.success /\ r.p = Self)
           /\ bottom.type # "number" => (~r.success /\ r.p = Self)
           /\ r.p.mcp.altitude = INVALID_NUMBER => mcp.altitude = INVALID_NUMBER
           /\ (bottom.type = "number" /\ bottom # Number(INVALID_NUMBER)
                  /\ bottom.value <= ac.altitude) => r.success
           /\ r.success => /\ r.p.mcp.altitude = bottom.value
                           /\ r.p.mcp.altitudeMode = "VNAV"
                           /\ r.p.mcp.speedMode = "VNAV"

\* a descent via STAR was refused with an altitude assigned and no
\* restriction left on the route
C14_NoBottomAltitudeLeft ==
    /\ last.op = "descendViaStar" /\ ~last.success
    /\ last.log = "unable to descend via STAR"
    /\ getBottomAltitude(fms) = INVALID_NUMBER
    /\ mcp.altitude # INVALID_NUMBER

\* C15: a successful cancelApproachClearance sets the MCP altitude target to
\* the lesser of the aircraft's altitude rounded down to a hundred and the
\* target assigned before, but not below the airport's minimum assignable
\* altitude; so the target rises above the one assigned before only when
\* the airport's minimum lies above it.
C15_AltitudeResumedOnCancel ==
    \A ac \in ApproachingAircraft :
        hasApproachClearance =>
            LET r == cancelApproachClearance(Self, ac)
                hundreds == CHOOSE h \in 0..(ac.altitude \div 100) :
                                100 * h <= ac.altitude /\ ac.altitude < 100 * (h + 1)
                lesser == IF 100 * hundreds < mcp.altitude THEN 100 * hundreds
                          ELSE mcp.altitude
                resumed == IF lesser < airport.minAssignableAltitude
                           THEN airport.minAssignableAltitude ELSE lesser
            IN /\ r.success
               /\ r.p.mcp.altitude = resumed
               /\ r.p.mcp.altitude > mcp.altitude =>
                      airport.minAssignableAltitude > mcp.altitude

\* an approach was cancelled with the aircraft low: it levels off at the
\* airport's minimum assignable altitude
C15_ResumedAtAirportMinimum ==
    /\ last.op = "cancelApproachClearance" /\ last.success
    /\ fms.arrivalRunway # "nil"
    /\ mcp.altitude = airport.minAssignableAltitude

\* C16: after a successful cancelApproachClearance the altitude, heading
\* and speed modes are HOLD, the heading target is the aircraft's present
\* heading, the speed target is the one assigned before the call, and the
\* approach clearance is gone.
C16_HoldModesOnCancel ==
    \A ac \in ApproachingAircraft \cup TurningAircraft :
        hasApproachClearance =>
            LET r == cancelApproachClearance(Self, ac)
            IN /\ r.success
               /\ r.p.mcp.altitudeMode = "HOLD"
               /\ r.p.mcp.headingMode = "HOLD"
               /\ r.p.mcp.speedMode = "HOLD"
               /\ r.p.mcp.heading = ac.heading
               /\ r.p.mcp.speed = mcp.speed
               /\ ~r.p.hasApproachClearance

\* an approach was cancelled with a speed assigned: the three modes are HOLD
\* on the present heading and the speed assigned
C16_AllHoldAfterCancel ==
    /\ last.op = "cancelApproachClearance" /\ last.success
    /\ mcp.altitudeMode = "HOLD" /\ mcp.headingMode = "HOLD" /\ mcp.speedMode = "HOLD"
    /\ mcp.heading \in AircraftHeadings
    /\ mcp.speed \in RequestedSpeeds
    /\ ~hasApproachClearance

\* C17: after a successful conductInstrumentApproach to a runway the heading
\* mode is VOR_LOC with the runway's angle as course and the runway's
\* position as nav1Datum, the altitude mode is APPROACH with the runway's
\* glideslope gradient as descent angle, the FMS current waypoint has no
\* active hold, the FMS arrival runway is that runway, and the approach
\* clearance is held.
C17_ApproachArmedOnRunway ==
    \A runway \in Runways \cup {NoRunway} :
        LET r == conductInstrumentApproach(Self, AnyAircraft, "ils", runway)
        IN r.success =>
               /\ runway # NoRunway
               /\ r.p.mcp.headingMode = "VOR_LOC"
               /\ r.p.mcp.course = runway.angle
               /\ r.p.mcp.nav1Datum = runway.positionModel
               /\ r.p.mcp.altitudeMode = "APPROACH"
               /\ r.p.mcp.descentAngle = runway.ils.glideslopeGradient
               /\ ~isHoldWaypoint(r.p.fms, r.p.fms.currentWaypoint)
               /\ r.p.fms.arrivalRunway = runway.name
               /\ r.p.hasApproachClearance

\* an aircraft holding at its current waypoint, already cleared to another
\* runway, was cleared for the approach to 09R
C17_ClearedFromTheHold ==
    /\ last.op = "conductInstrumentApproach" /\ last.success
    /\ last.hadHold /\ last.hadApproachClearance
    /\ fms.arrivalRunway = "09R" /\ mcp.nav1Datum = "pos09R"
    /\ mcp.altitudeMode = "APPROACH" /\ mcp.headingMode = "VOR_LOC"
    /\ ~isHoldWaypoint(fms, fms.currentWaypoint)

C20_TurnByAmountOrToHeading ==
    \A ac \in TurningAircraft, i \in TurnInstructions :
        LET r == maintainHeading(Self, ac, i.headingInDegrees, i.direction, i.incremental)
            d == i.headingInDegrees
            current == radiansToDegrees(ac.heading)
            turned == IF i.direction = "left" THEN current - d ELSE current + d
            normalized == CHOOSE h \in 0..359 : (turned - h) % 360 = 0
        IN /\ r.success
           /\ i.incremental =>
                  /\ r.p.mcp.heading = degreesToRadians(normalized)
                  /\ r.log = [text |-> "turn degrees " \o i.direction, n |-> d]
           /\ ~i.incremental =>
                  /\ r.p.mcp.heading = degreesToRadians(d)
                  /\ \A other \in TurningAircraft :
                         maintainHeading(Self, other, d, i.direction, FALSE).p.mcp.heading
                             = r.p.mcp.heading

\* a left turn through north: from heading 010 by 20 degrees to 350
C20_TurnedLeftThroughNorth ==
    /\ last.op = "maintainHeading" /\ last.success
    /\ last.log = "turn degrees left"
    /\ mcp.headingMode = "HOLD" /\ mcp.heading = degreesToRadians(350)

\* C21: initiateHoldingPattern returns success = true and leaves the named
\* waypoint's hold active when the route contains the fix and the FMS
\* reports nothing; when the FMS reports a failure, the fix not being on the
\* route, the call returns that failure as it is and no waypoint's hold
\* state changes.
C21_HoldOnlyOnTheRoute ==
    \A fixName \in WaypointNames \cup {UnknownWaypointName} :
        LET r == initiateHoldingPattern(Self, fixName, <<>>)
            answer == activateHoldForWaypointName(fms, fixName)
        IN /\ r.returned
           /\ (answer.response = "none") = hasWaypointName(fms, fixName)
           /\ answer.response = "none" =>
                  /\ r.success /\ r.readback = "string"
                  /\ isHoldWaypoint(r.p.fms, fixName)
                  /\ r.p = [Self EXCEPT !.fms.holds = fms.holds \cup {fixName}]
           /\ answer.response # "none" =>
                  /\ ~r.success /\ r.readback = "fms"
                  /\ r.p.fms.holds = fms.holds
                  /\ r.p = Self

\* a hold was refused for a fix not on the route while the hold at another
\* waypoint stays active
C21_HoldRefusedWhileHolding ==
    /\ last.op = "initiateHoldingPattern" /\ ~last.success
    /\ last.readback = "fms"
    /\ fms.holds # {}

\* C22: goAround always succeeds and leaves the altitude, heading and speed
\* modes all HOLD, with the altitude target a thousand feet above the
\* elevation rounded up to a multiple of 100, the heading target the heading
\* passed and the speed target the speed passed.
C22_GoAroundTargets ==
    \A ac \in TurningAircraft, speed \in RequestedSpeeds,
       airportElevation \in AirportElevations :
        LET r == goAround(Self, ac.heading, speed, airportElevation)
            m == r.p.mcp
            roundedUp == m.altitude - 1000
        IN /\ r.returned /\ r.success
           /\ m.altitudeMode = "HOLD" /\ m.headingMode = "HOLD" /\ m.speedMode = "HOLD"
           /\ roundedUp % 100 = 0
           /\ airportElevation <= roundedUp /\ roundedUp < airportElevation + 100
           /\ m.heading = ac.heading
           /\ m.speed = speed

\* a go-around from a cleared approach at a field 13 feet high: all three
\* modes hold and the altitude target is 1100
C22_WentAroundFromTheApproach ==
    /\ last.op = "goAround" /\ last.success /\ last.hadApproachClearance
    /\ mcp.altitudeMode = "HOLD" /\ mcp.headingMode = "HOLD" /\ mcp.speedMode = "HOLD"
    /\ mcp.altitude = 1100

\* C23: configureForTakeoff writes an MCP target (altitude, heading, speed)
\* only when that target is the INVALID sentinel and changes a mode only
\* when that mode is OFF (altitude to HOLD, heading to LNAV, speed to N1);
\* it never overwrites a target or a mode already assigned, and a second
\* call right after the first leaves the state the first call left.
C23_TakeoffSeedsWhatIsUnset ==
    \A initialAltitude \in InitialAltitudes, runway \in Runways,
       cruiseSpeed \in CruiseSpeeds :
        LET r == configureForTakeoff(Self, initialAltitude, runway, cruiseSpeed)
            m == r.p.mcp
            seeded(old, value) == IF old = INVALID_NUMBER THEN value ELSE old
            engaged(old, mode) == IF old = "OFF" THEN mode ELSE old
        IN /\ m.altitude = seeded(mcp.altitude, initialAltitude)
           /\ m.heading = seeded(mcp.heading, runway.angle)
           /\ m.speed = seeded(mcp.speed, cruiseSpeed)
           /\ m.altitudeMode = engaged(mcp.altitudeMode, "HOLD")
           /\ m.headingMode = engaged(mcp.headingMode, "LNAV")
           /\ m.speedMode = engaged(mcp.speedMode, "N1")
           /\ r.p = [Self EXCEPT !.mcp = m]
           /\ m = [mcp EXCEPT !.altitude = m.altitude, !.heading = m.heading,
                              !.speed = m.speed, !.altitudeMode = m.altitudeMode,
                              !.headingMode = m.headingMode, !.speedMode = m.speedMode]
           /\ \A again \in InitialAltitudes, other \in Runways, speed \in CruiseSpeeds :
                  configureForTakeoff(r.p, again, other, speed).p = r.p

\* the takeoff was configured after a climb via the SID and a heading
\* assignment: the speed target is seeded while the speed mode stays VNAV,
\* the altitude stays the flight plan's and the heading the one assigned
C23_ConfiguredAfterTheClimb ==
    /\ last.op = "configureForTakeoff"
    /\ mcp.speedMode = "VNAV" /\ mcp.speed = 250
    /\ mcp.altitudeMode = "VNAV" /\ mcp.altitude = 1200
    /\ mcp.headingMode = "HOLD" /\ mcp.heading = degreesToRadians(20)

\* C24: proceedDirect returns success = false and changes neither the route
\* cursor, any waypoint's skipped or hold state nor the heading mode when
\* the name is not in the flight plan; when it is, the route cursor points
\* at the named waypoint, the waypoints passed over are marked skipped, and
\* the heading mode is LNAV.
C24_DirectToAWaypointOfTheRoute ==
    \A waypointName \in WaypointNames \cup {UnknownWaypointName} :
        LET r == proceedDirect(Self, waypointName)
            f == r.p.fms
        IN /\ r.returned
           /\ ~hasWaypointName(fms, waypointName) =>
                  /\ ~r.success
                  /\ f.currentWaypoint = fms.currentWaypoint
                  /\ f.skipped = fms.skipped /\ f.holds = fms.holds
                  /\ r.p.mcp.headingMode = mcp.headingMode
                  /\ r.p = Self
           /\ hasWaypointName(fms, waypointName) =>
                  /\ r.success
                  /\ f.currentWaypoint = waypointName
                  /\ \A w \in WaypointNames :
                         (fms.currentWaypoint <= w /\ w < waypointName) => w \in f.skipped
                  /\ fms.skipped \subseteq f.skipped
                  /\ r.p.mcp.headingMode = "LNAV"

\* the aircraft went direct to the second waypoint from a heading it was
\* holding: the first waypoint is skipped and the heading mode is LNAV
C24_WentDirectPastAWaypoint ==
    /\ last.op = "proceedDirect" /\ last.success
    /\ fms.currentWaypoint = NumWaypoints /\ 1 \in fms.skipped
    /\ mcp.headingMode = "LNAV" /\ mcp.heading # INVALID_NUMBER

\* C25: updateStarLegForArrivalRunway returns failure without consulting or
\* changing the FMS route whenever the aircraft is on the ground; when the
\* aircraft is not on the ground it returns exactly the FMS's result.
C25_RunwayAssignedOnlyAirborne ==
    \A ac \in DepartingAircraft, nextRunwayModel \in Runways :
        LET r == updateStarLegForArrivalRunway(Self, ac, nextRunwayModel)
            answer == fmsUpdateStarLegForArrivalRunway(fms, nextRunwayModel)
        IN /\ r.returned
           /\ ~ac.airborne =>
                  /\ ~r.success /\ r.readback = "string"
                  /\ r.log.text = "unable to accept arrival runway assignment until airborne"
                  /\ r.p = Self
           /\ ac.airborne =>
                  /\ r.success = answer.success /\ r.readback = "fms"
                  /\ r.p = [Self EXCEPT !.fms = answer.fms]

\* an arrival runway was refused on the ground although the route has a
\* STAR the FMS would have taken it for
C25_RunwayRefusedOnTheGround ==
    /\ last.op = "updateStarLegForArrivalRunway" /\ ~last.success
    /\ last.readback = "string"
    /\ fms.route = "star" /\ fms.arrivalRunway = "nil"

\* C26: for applyDepartureProcedure, applyPartialRouteAmendment and
\* replaceFlightPlanWithNewRoute, hasDepartureClearance becomes true exactly
\* when the FMS call reports success; when the FMS reports failure the
\* Pilot returns that failure, the route is unchanged and
\* hasDepartureClearance keeps its value.  applyArrivalProcedure never
\* changes hasDepartureClearance.
C26_ClearedWhenTheRouteIsTaken ==
    \A routeString \in RouteStrings :
        LET departure == applyDepartureProcedure(Self, routeString, "KLAS")
            amendment == applyPartialRouteAmendment(Self, routeString)
            newRoute == pilotReplaceFlightPlanWithNewRoute(Self, routeString)
            arrival == applyArrivalProcedure(Self, routeString, "KLAS")
            taken(r, answer) ==
                /\ r.returned /\ r.success = answer.success
                /\ answer.success =>
                       /\ r.p.hasDepartureClearance
                       /\ r.p = [Self EXCEPT !.fms = answer.fms,
                                             !.hasDepartureClearance = TRUE]
                /\ ~answer.success =>
                       /\ r.readback = "fms"
                       /\ r.p.fms = fms
                       /\ r.p.hasDepartureClearance = hasDepartureClearance
                       /\ r.p = Self
        IN /\ taken(departure, replaceProcedure(fms, "sid", routeString))
           /\ taken(amendment, replaceProcedure(fms, "amended", routeString))
           /\ taken(newRoute, replaceFlightPlanWithNewRoute(fms, routeString))
           /\ arrival.p.hasDepartureClearance = hasDepartureClearance

\* a route amendment was refused after an arrival was applied: the route
\* is still the arrival's and there is still no departure clearance
C26_AmendmentRefusedWithoutClearance ==
    /\ last.op = "applyPartialRouteAmendment" /\ ~last.success
    /\ fms.route = "star"
    /\ ~hasDepartureClearance

\* C27: applyArrivalProcedure and applyDepartureProcedure leave the MCP
\* heading mode, and every other MCP mode and target, unchanged, on
\* success as on failure.
C27_ProceduresLeaveTheMcp ==
    \A routeString \in RouteStrings :
        LET arrival == applyArrivalProcedure(Self, routeString, "KLAS")
            departure == applyDepartureProcedure(Self, routeString, "KLAS")
        IN /\ arrival.p.mcp.headingMode = mcp.headingMode
           /\ departure.p.mcp.headingMode = mcp.headingMode
           /\ arrival.p.mcp = mcp
           /\ departure.p.mcp = mcp
           /\ arrival.success = (routeString \in KnownRouteStrings)
           /\ departure.success = (routeString \in KnownRouteStrings)

\* an arrival was applied while a heading was being held: the heading mode
\* is still HOLD on the heading assigned
C27_ArrivalAppliedOnAHeading ==
    /\ last.op = "applyArrivalProcedure" /\ last.success
    /\ fms.route = "star"
    /\ mcp.headingMode = "HOLD" /\ mcp.heading = degreesToRadians(20)

\* C28: sayTargetHeading is a read-only query that, in each of the four
\* heading modes (OFF, HOLD, VOR_LOC, LNAV), returns a [true, {log, say}]
\* result with a phrasing of that mode, never raises a fault, and changes no
\* MCP, FMS or flag state.
C28_HeadingQueryInEveryMode ==
    [][last'.op = "sayTargetHeading" =>
           /\ last'.returned /\ last'.success /\ last'.readback = "logsay"
           /\ last'.log = CASE mcp.headingMode = "HOLD" -> "we're assigned heading"
                            [] mcp.headingMode = "VOR_LOC" -> "we're joining a course of"
                            [] mcp.headingMode = "LNAV" -> "our on-course heading is"
                            [] OTHER -> "we haven't been assigned a heading"
           /\ PilotState' = PilotState]_vars

\* C29 as claimed: on a successful maintainAltitude the altitude in the
\* readback is the stored target rounded to the nearest multiple of 100
\* feet, while the MCP altitude target keeps the full-precision clamped
\* value.
C29_ReadbackToNearestHundred ==
    [][\A x \in ReadbackAltitudes, expedite \in BOOLEAN, soft \in BOOLEAN,
          ac \in AircraftModels :
           LET r == maintainAltitude(Self, x, expedite, soft, airport, ac)
               target == mcp'.altitude
               hi == airport.maxAssignableAltitude
               clamped == clamp(airport.minAssignableAltitude, x, hi)
           IN (Called("maintainAltitude", r) /\ r.success) =>
                  /\ r.log.n % 100 = 0
                  /\ \A n \in {r.log.n - 100, r.log.n + 100} :
                         Max(target - r.log.n, r.log.n - target)
                             <= Max(target - n, n - target)
                  /\ target = IF soft /\ clamped = hi THEN hi + 1 ELSE clamped]_vars

\* C29 as amended: on a successful maintainAltitude the altitude in the
\* readback is the stored target rounded down to a multiple of 100 feet,
\* while the MCP altitude target keeps the full-precision clamped value.
C29_ReadbackToHundredBelow ==
    \A x \in ReadbackAltitudes, expedite \in BOOLEAN, soft \in BOOLEAN,
       ac \in AircraftModels :
        LET r == maintainAltitude(Self, x, expedite, soft, airport, ac)
            target == r.p.mcp.altitude
            hi == airport.maxAssignableAltitude
            clamped == clamp(airport.minAssignableAltitude, x, hi)
        IN r.success =>
               /\ r.readback = "logsay"
               /\ r.log.n % 100 = 0
               /\ r.log.n <= target /\ target < r.log.n + 100
               /\ target = IF soft /\ clamped = hi THEN hi + 1 ELSE clamped

\* an altitude was assigned to the foot, nearer to the hundred above than
\* to the hundred below, and is stored to the foot
C29_AssignedAboveTheMiddle ==
    /\ last.op = "maintainAltitude" /\ last.success
    /\ mcp.altitudeMode = "HOLD" /\ mcp.altitude % 100 = 51

\* C31: exitHold returns success = false and changes nothing when the FMS
\* current waypoint is not a hold waypoint; otherwise it deactivates the
\* hold on the current waypoint only (no other waypoint's hold state and no
\* MCP mode changes) and returns success = true, so that a second exitHold
\* right after it fails.
C31_ExitHoldAtCurrentWaypoint ==
    LET r == exitHold(Self)
        current == fms.currentWaypoint
    IN /\ r.returned
       /\ ~isHoldWaypoint(fms, current) => (~r.success /\ r.p = Self)
       /\ isHoldWaypoint(fms, current) =>
              /\ r.success
              /\ ~isHoldWaypoint(r.p.fms, current)
              /\ \A w \in WaypointNames \ {current} :
                     isHoldWaypoint(r.p.fms, w) = isHoldWaypoint(fms, w)
              /\ r.p.mcp = mcp
              /\ r.p = [Self EXCEPT !.fms.holds = fms.holds \ {current}]
              /\ ~exitHold(r.p).success /\ exitHold(r.p).p = r.p

\* the hold at the current waypoint was left while the hold at another
\* waypoint stays active
C31_LeftOneOfTwoHolds ==
    /\ last.op = "exitHold" /\ last.success /\ last.hadHold
    /\ ~isHoldWaypoint(fms, fms.currentWaypoint)
    /\ fms.holds # {}

\* C32: in every state reachable by any sequence of Pilot operations,
\* hasApproachClearance = true implies that the altitude mode is APPROACH
\* and the heading mode is VOR_LOC; no operation that moves the altitude or
\* heading mode away from them (climbViaSid, descendViaStar, goAround,
\* proceedDirect) leaves the flag true.
C32_ClearanceMeansApproachModes ==
    hasApproachClearance =>
        (mcp.altitudeMode = "APPROACH" /\ mcp.headingMode = "VOR_LOC")

\* C33: within conductInstrumentApproach the vertical sub-step never reports
\* a datum or course mismatch, because _interceptCourse has written the
\* runway's datum and course to the MCP before _interceptGlidepath compares
\* them: once the runway and minimum-altitude checks pass the operation
\* succeeds, and a lateral reference armed before is replaced.
C33_GlidepathNeverMismatches ==
    \A runway \in Runways :
        LET r == conductInstrumentApproach(Self, AnyAircraft, "ils", runway)
            datum == runway.positionModel
            course == runway.angle
            lateral == _interceptCourse(Self, datum, course)
            vertical == _interceptGlidepath(lateral.p, datum, course,
                                            runway.ils.glideslopeGradient)
        IN /\ lateral.success /\ vertical.success
           /\ lateral.p.mcp.nav1Datum = datum /\ lateral.p.mcp.course = course
           /\ mcp.altitude >= runway.minimumGlideslopeInterceptAltitude =>
                  /\ r.success
                  /\ r.lateralGuidance = "true" /\ r.verticalGuidance = "true"
                  /\ r.p.mcp.nav1Datum = datum /\ r.p.mcp.course = course
                  /\ r.p.armed = [nav1Datum |-> datum, course |-> course]

\* an approach to runway 27L was cleared to an aircraft that held an
\* approach clearance, at an altitude from which runway 09R can be cleared
\* next: the reference armed is the one of 27L
C33_ClearedAgainOnAnotherRunway ==
    /\ last.op = "conductInstrumentApproach" /\ last.success
    /\ last.hadApproachClearance
    /\ mcp.nav1Datum = "pos27L" /\ armed.nav1Datum = "pos27L"
    /\ \E runway \in Runways :
           /\ runway.positionModel # mcp.nav1Datum
           /\ mcp.altitude >= runway.minimumGlideslopeInterceptAltitude

\* C34: after any successful maintainAltitude the MCP altitude target is an
\* altitude the aircraft is able to maintain (target <= the type's
\* ceiling), for every combination of requested altitude, airport minimum
\* and maximum assignable altitude and soft-ceiling setting.
C34_TargetWithinCeiling ==
    (last.op = "maintainAltitude" /\ last.success) =>
        isAbleToMaintainAltitude(aircraftType, mcp.altitude)

\* C35: a successful maintainAltitude leaves the heading mode, the heading
\* target and the speed mode unchanged when no approach clearance is
\* active; when one is active it also forces the heading mode to HOLD at
\* the aircraft's present heading and the speed mode to HOLD, through the
\* cancelApproachClearance it calls.
C35_AltitudeLeavesHeadingAndSpeed ==
    \A x \in RequestedAltitudes, expedite \in BOOLEAN, soft \in BOOLEAN,
       ac \in TurningAircraft :
        LET r == maintainAltitude(Self, x, expedite, soft, airport, ac)
            m == r.p.mcp
        IN r.success =>
               /\ ~hasApproachClearance =>
                      /\ m.headingMode = mcp.headingMode
                      /\ m.heading = mcp.heading
                      /\ m.speedMode = mcp.speedMode
               /\ hasApproachClearance =>
                      /\ m.headingMode = "HOLD" /\ m.heading = ac.heading
                      /\ m.speedMode = "HOLD"
                      /\ m = [cancelApproachClearance(Self, ac).p.mcp EXCEPT
                                 !.altitude = m.altitude,
                                 !.shouldExpediteAltitudeChange =
                                     m.shouldExpediteAltitudeChange]
               /\ m.speed = mcp.speed

\* an altitude was assigned on a cleared approach flown after the takeoff
\* configuration: the heading is held on the present one, the speed mode is
\* HOLD instead of N1
C35_AssignedOnApproachAfterTakeoff ==
    /\ last.op = "maintainAltitude" /\ last.success
    /\ last.hadApproachClearance
    /\ mcp.headingMode = "HOLD" /\ mcp.heading \in AircraftHeadings
    /\ mcp.speedMode = "HOLD" /\ mcp.speed = 250

\* C36: the MCP expedite flag is set to true by maintainAltitude with
\* expedite = true and by shouldExpediteAltitudeChange, and by
\* maintainAltitude only on a successful call; no Pilot operation ever
\* resets it, so a later maintainAltitude with expedite = false leaves it
\* true.
\* Stated of every operation called in the current state: the flag after
\* the call is the flag before it, or true after shouldExpediteAltitudeChange
\* and after a successful maintainAltitude with expedite = true.
C36_ExpediteIsNeverReset ==
    LET expediting(r) == r.p.mcp.shouldExpediteAltitudeChange
        kept(r) == expediting(r) = mcp.shouldExpediteAltitudeChange
    IN /\ expediting(shouldExpediteAltitudeChange(Self))
       /\ \A x \in ExpediteAltitudes, expedite \in BOOLEAN, soft \in BOOLEAN,
             ac \in LevelAircraft :
              LET r == maintainAltitude(Self, x, expedite, soft, airport, ac)
              IN expediting(r) =
                     (mcp.shouldExpediteAltitudeChange \/ (r.success /\ expedite))
       /\ \A ac \in DepartingAircraft :
              /\ \A i \in HeadingInstructions :
                     kept(maintainHeading(Self, ac, i.headingInDegrees, i.direction,
                                          i.incremental))
              /\ \A speed \in RequestedSpeeds : kept(maintainSpeed(Self, speed, ac))
              /\ \A altitude \in OptionalAltitudes :
                     /\ kept(climbViaSid(Self, ac, altitude))
                     /\ kept(descendViaStar(Self, ac, altitude))
              /\ \A elevation \in AirportElevations :
                     kept(goAround(Self, ac.heading, ac.speed, elevation))
              /\ \A runway \in Runways \cup {NoRunway} :
                     /\ kept(conductInstrumentApproach(Self, ac, "ils", runway))
                     /\ kept(updateStarLegForArrivalRunway(Self, ac, runway))
              /\ \A runway \in Runways : kept(configureForTakeoff(Self, 1000, runway, 250))
              /\ kept(maintainPresentHeading(Self, ac))
              /\ kept(cancelApproachClearance(Self, ac))
              /\ kept(cancelDepartureClearance(Self, ac))
       /\ \A name \in WaypointNames \cup {UnknownWaypointName} :
              /\ kept(proceedDirect(Self, name))
              /\ kept(initiateHoldingPattern(Self, name, <<>>))
       /\ \A routeString \in RouteStrings :
              /\ kept(applyArrivalProcedure(Self, routeString, "KLAS"))
              /\ kept(applyDepartureProcedure(Self, routeString, "KLAS"))
              /\ kept(applyPartialRouteAmendment(Self, routeString))
              /\ kept(pilotReplaceFlightPlanWithNewRoute(Self, routeString))
       /\ kept(exitHold(Self)) /\ kept(clearedAsFiled(Self))
       /\ kept(sayTargetedAltitude(Self)) /\ kept(sayTargetHeading(Self))
       /\ kept(sayTargetedSpeed(Self))

\* an altitude was assigned without expedite while the expedite flag was
\* set: the flag is still set
C36_StillExpediting ==
    /\ last.op = "maintainAltitude" /\ last.success /\ last.log = "maintain"
    /\ mcp.shouldExpediteAltitudeChange

\* C37: in proceedDirect the hold is exited after the route cursor has
\* moved: after a successful proceedDirect(name) the named waypoint, now the
\* current one, has no active hold, even if a hold had been activated on
\* that very waypoint before; the holds at the other waypoints stay.
C37_DirectToLeavesTheHoldThere ==
    \A waypointName \in WaypointNames \cup {UnknownWaypointName} :
        LET r == proceedDirect(Self, waypointName)
        IN r.success =>
               /\ r.p.fms.currentWaypoint = waypointName
               /\ ~isHoldWaypoint(r.p.fms, waypointName)
               /\ r.p.fms.holds = fms.holds \ {waypointName}
               /\ ~exitHold(r.p).success

\* the aircraft went direct to the waypoint it was holding at: the hold
\* there is no longer active
C37_WentDirectToTheHoldingFix ==
    /\ last.op = "proceedDirect" /\ last.success /\ last.hadHold
    /\ fms.currentWaypoint = 1
    /\ ~isHoldWaypoint(fms, fms.currentWaypoint)

\* C38: calculateRunwaySeparationDistanceInFeet returns 6000 whenever the
\* previous type's srs category is undefined or 3, whatever this type's
\* category; otherwise it returns 3000 when this type's srs is 1, 4500 when
\* it is 2 and 6000 for any other value, so that the result is always one
\* of 3000, 4500 and 6000.
C38_SeparationByCategory ==
    /\ runwayUse.separation # INVALID_NUMBER =>
           LET own == aircraftType.category.srs
               previous == runwayUse.previousType.category.srs
               distance == runwayUse.separation
           IN /\ distance \in {3000, 4500, 6000}
              /\ previous \in {Undefined, Number(3)} => distance = 6000
              /\ previous \notin {Undefined, Number(3)} =>
                     /\ own = Number(1) => distance = 3000
                     /\ own = Number(2) => distance = 4500
                     /\ own \notin {Number(1), Number(2)} => distance = 6000
    /\ \A previousTypeModel \in SeparationTypes :
           LET distance == calculateRunwaySeparationDistanceInFeet(aircraftType,
                                                                   previousTypeModel)
           IN /\ distance \in {3000, 4500, 6000}
              /\ (distance = 3000) =>
                     /\ aircraftType.category.srs = Number(1)
                     /\ previousTypeModel.category.srs \in
                            {NotANumber, Number(1), Number(2), Number(4)}

\* a type of category 1 comes to the runway after a type of category 3 and
\* owes it 6000 feet
C38_SmallBehindLarge ==
    /\ last.op = "calculateRunwaySeparationDistanceInFeet"
    /\ aircraftType.category.srs = Number(1)
    /\ runwayUse.previousType.category.srs = Number(3)
    /\ runwayUse.separation = 6000

====
